---- MODULE Spec2Model ----
(***************************************************************************)
(* A model of cassandra/cqlengine/models.py: the schema resolver           *)
(* (ModelMetaClass.__new__), the per-instance value store and the          *)
(* persistence operations of BaseModel, the dual-mode descriptors and the  *)
(* polymorphic resolver.                                                   *)
(*                                                                         *)
(* Python values are strings ("None" is None), class references are        *)
(* indices into `classes` (NoClass is None) and column objects are indices *)
(* into `heap`: column objects are shared between a class and its          *)
(* subclasses and the resolver mutates them in place.  An OrderedDict is a *)
(* sequence of <<key, value>> pairs with distinct keys.                    *)
(***************************************************************************)
EXTENDS Integers, Sequences, FiniteSets, TLC

VARIABLES
    heap,               \* the column objects created so far, by position
    classes,            \* the model classes created so far
    discriminator_map,  \* per class: _discriminator_map, discriminator value -> class
    instances,          \* the live model instances
    vm_conservative,    \* whether the value manager marks every assignment as a change
    calls,              \* per thread: the _construct_instance call it is in
    querysets,          \* the query sets handed out by the class-level accessors
    result              \* the outcome of the last operation

vars == <<heap, classes, discriminator_map, instances, vm_conservative, calls, querysets,
          result>>

\* ------------------------------------------------------------------ bounds

MaxClasses == 2         \* classes defined in the schema specification
MaxDecl == 2            \* columns declared in one class body
MaxBases == 2           \* bases of one class

\* --------------------------------------------------------------- constants

NoClass == 0

\* Attributes and methods of BaseModel, which no column may be named after.
BuiltinNames == {"objects", "ttl", "consistency", "iff", "timestamp", "if_not_exists",
                 "save", "update", "delete", "timeout", "batch", "validate", "keys",
                 "values", "items", "create", "all", "filter", "get"}

\* ------------------------------------------------------------ OrderedDict

OD_Keys(od) == [i \in 1..Len(od) |-> od[i][1]]

OD_Values(od) == [i \in 1..Len(od) |-> od[i][2]]

OD_Has(od, k) == \E i \in 1..Len(od) : od[i][1] = k

OD_Get(od, k) == od[CHOOSE i \in 1..Len(od) : od[i][1] = k][2]

\* d[k] = v: a new key goes last, a known key keeps its place and takes v.
OD_Set(od, k, v) ==
    IF OD_Has(od, k)
    THEN [i \in 1..Len(od) |-> IF od[i][1] = k THEN <<k, v>> ELSE od[i]]
    ELSE Append(od, <<k, v>>)

\* d.setdefault(k, v): a known key keeps its value.
OD_SetDefault(od, k, v) == IF OD_Has(od, k) THEN od ELSE Append(od, <<k, v>>)

\* (mutant) the first value given for a key stays
RECURSIVE OD_FromPairs_FirstWins(_)
OD_FromPairs_FirstWins(pairs) ==
    IF pairs = <<>> THEN <<>>
    ELSE LET od == OD_FromPairs_FirstWins(SubSeq(pairs, 1, Len(pairs) - 1))
             last == pairs[Len(pairs)]
         IN OD_SetDefault(od, last[1], last[2])

\* OrderedDict(pairs)
RECURSIVE OD_FromPairs(_)
OD_FromPairs(pairs) ==
    IF pairs = <<>> THEN <<>>
    ELSE LET n == Len(pairs)
         IN OD_Set(OD_FromPairs(SubSeq(pairs, 1, n - 1)), pairs[n][1], pairs[n][2])

\* ---------------------------------------------------------------- columns

\* A column object as columns.Column(...) constructs it.  A partition key
\* is a primary key.  declared_partition_key remembers the constructor's
\* argument; partition_key is the attribute the resolver may set later.
Column(primary_key, partition_key, discriminator_column, kind, clustering_order, db_field) ==
    [primary_key |-> primary_key \/ partition_key,
     partition_key |-> partition_key,
     declared_partition_key |-> partition_key,
     discriminator_column |-> discriminator_column,
     kind |-> kind,
     clustering_order |-> clustering_order,
     db_field |-> db_field,
     column_name |-> "None",
     required |-> FALSE,
     index |-> FALSE,
     has_default |-> FALSE,
     default |-> "None",
     coerces |-> FALSE]

\* Column(required=True)
Required(col) == [col EXCEPT !.required = TRUE]

\* Column(db_field=name)
DbField(col, name) == [col EXCEPT !.db_field = name]

\* A column type whose validate() returns a converted value
Coercing(col) == [col EXCEPT !.coerces = TRUE]

\* Column(default=d)
WithDefault(col, d) == [col EXCEPT !.has_default = TRUE, !.default = d]

db_field_name(v) == IF v.db_field # "None" THEN v.db_field ELSE v.column_name

IsCounter(v) == v.kind = "counter"

IsCounterOrContainer(v) == v.kind \in {"counter", "container"}

\* ------------------------------------------------------- schema resolver

RECURSIVE SetDefaultAll(_, _)
SetDefaultAll(od, pairs) ==
    IF pairs = <<>> THEN od
    ELSE SetDefaultAll(OD_SetDefault(od, Head(pairs)[1], Head(pairs)[2]), Tail(pairs))

\* for base in bases: for k, v in base._defined_columns.items(): setdefault
RECURSIVE InheritedColumns(_, _, _)
InheritedColumns(cs, bases, acc) ==
    IF bases = <<>> THEN acc
    ELSE InheritedColumns(cs, Tail(bases),
                          SetDefaultAll(acc, cs[Head(bases)]._defined_columns))

\* sorted(column_definitions, key=lambda x: x[1].position)
RECURSIVE SortByPosition(_)
SortByPosition(S) ==
    IF S = {} THEN <<>>
    ELSE LET m == CHOOSE x \in S : \A y \in S : x[2] <= y[2]
         IN <<m>> \o SortByPosition(S \ {m})

DiscriminatorColumns(h, column_definitions) ==
    SelectSeq(column_definitions, LAMBDA c : h[c[2]].discriminator_column)

\* (mutant) tolerate a second discriminator column
TooManyDiscriminators_Two(discriminator_columns) == Len(discriminator_columns) > 2

TooManyDiscriminators(discriminator_columns) == Len(discriminator_columns) > 1

\* _get_polymorphic_base: depth first through the bases
RECURSIVE GetPolymorphicBase(_, _)
GetPolymorphicBase(cs, bases) ==
    IF bases = <<>> THEN NoClass
    ELSE LET base == Head(bases)
         IN IF cs[base]._is_polymorphic_base THEN base
            ELSE LET klass == GetPolymorphicBase(cs, cs[base].bases)
                 IN IF klass # NoClass THEN klass
                    ELSE GetPolymorphicBase(cs, Tail(bases))

\* (mutant) the check for a primary key always passes
HasPrimaryKey_Always(h, column_definitions) == TRUE

\* any([v.primary_key for k, v in column_definitions])
HasPrimaryKey(h, column_definitions) ==
    \E i \in 1..Len(column_definitions) : h[column_definitions[i][2]].primary_key

CounterColumns(h, defined_columns) ==
    SelectSeq(OD_Values(defined_columns), LAMBDA c : IsCounter(h[c]))

\* (mutant) a discriminator column is not taken for a data column
DataColumns_NoDiscriminator(h, defined_columns) ==
    SelectSeq(OD_Values(defined_columns),
              LAMBDA c : ~h[c].primary_key /\ ~IsCounter(h[c])
                         /\ ~h[c].discriminator_column)

DataColumns(h, defined_columns) ==
    SelectSeq(OD_Values(defined_columns),
              LAMBDA c : ~h[c].primary_key /\ ~IsCounter(h[c]))

CounterWithData(h, defined_columns) ==
    CounterColumns(h, defined_columns) # <<>> /\ DataColumns(h, defined_columns) # <<>>

HasPartitionKeys(h, column_definitions) ==
    \E i \in 1..Len(column_definitions) : h[column_definitions[i][2]].partition_key

\* (mutant) promote every primary key
ShouldPromote_Always(has_partition_keys, v) == v.primary_key

\* "this will mark the first primary key column as a partition key, if one
\* hasn't been set already"
ShouldPromote(has_partition_keys, v) == ~has_partition_keys /\ v.primary_key

\* The loop over column_definitions with _transform_column; st carries the
\* loop's variables and stops at the first exception.
RECURSIVE TransformColumns(_, _)
TransformColumns(defs, st) ==
    IF defs = <<>> \/ st.err # "" THEN st
    ELSE LET k == Head(defs)[1]
             id == Head(defs)[2]
             v == st.heap[id]
         IN IF k \in BuiltinNames
            THEN [st EXCEPT !.err = "conflicts with built-in attribute/method"]
            ELSE IF (v.primary_key \/ v.partition_key) /\ IsCounterOrContainer(v)
            THEN [st EXCEPT !.err = "counter columns and container columns cannot be used as primary keys"]
            ELSE LET promote == ShouldPromote(st.has_partition_keys, v)
                     h1 == IF promote
                           THEN [st.heap EXCEPT ![id].partition_key = TRUE]
                           ELSE st.heap
                     h2 == [h1 EXCEPT ![id].column_name = k]
                 IN TransformColumns(Tail(defs),
                        [err |-> "",
                         has_partition_keys |-> st.has_partition_keys \/ promote,
                         heap |-> h2,
                         column_dict |-> OD_Set(st.column_dict, k, id),
                         primary_keys |-> IF v.primary_key
                                          THEN OD_Set(st.primary_keys, k, id)
                                          ELSE st.primary_keys])

PartitionKeys(h, primary_keys) ==
    SelectSeq(primary_keys, LAMBDA k : h[k[2]].partition_key)

ClusteringKeys(h, primary_keys) ==
    SelectSeq(primary_keys, LAMBDA k : ~h[k[2]].partition_key)

\* str.lower() on the clustering orders the model declares
Lower(s) ==
    CASE s = "ASC" -> "asc"
      [] s = "DESC" -> "desc"
      [] s = "Desc" -> "desc"
      [] OTHER -> s

\* (mutant) the loop checks the database names only
RECURSIVE ValidateColumns_NamesOnly(_, _, _)
ValidateColumns_NamesOnly(h, cols, col_names) ==
    IF cols = <<>> THEN ""
    ELSE IF db_field_name(h[Head(cols)]) \in col_names
    THEN "defines the column more than once"
    ELSE ValidateColumns_NamesOnly(h, Tail(cols),
                                   col_names \cup {db_field_name(h[Head(cols)])})

\* The "some validation" loop over column_dict.values(): the first error, or "".
RECURSIVE ValidateColumns(_, _, _)
ValidateColumns(h, cols, col_names) ==
    IF cols = <<>> THEN ""
    ELSE LET v == h[Head(cols)]
         IN IF db_field_name(v) \in col_names
            THEN "defines the column more than once"
            ELSE IF v.clustering_order # "None" /\ ~(v.primary_key /\ ~v.partition_key)
            THEN "clustering_order may be specified only for clustering primary keys"
            ELSE IF v.clustering_order # "None" /\ Lower(v.clustering_order) \notin {"asc", "desc"}
            THEN "invalid clustering order"
            ELSE ValidateColumns(h, Tail(cols), col_names \cup {db_field_name(v)})

\* (mutant) the property takes the partition keys last to first
PkAccessor_Reversed(column_dict, partition_keys) ==
    IF Len(partition_keys) = 1
    THEN [kind |-> "descriptor", column |-> OD_Get(column_dict, partition_keys[1][1]),
          keys |-> <<>>]
    ELSE [kind |-> "property", column |-> 0,
          keys |-> [i \in 1..Len(partition_keys) |->
                      partition_keys[Len(partition_keys) + 1 - i][1]]]

\* The pk shortcut: the column descriptor of the single partition key, or a
\* property over the partition keys.
PkAccessor(column_dict, partition_keys) ==
    IF Len(partition_keys) = 1
    THEN [kind |-> "descriptor", column |-> OD_Get(column_dict, partition_keys[1][1]),
          keys |-> <<>>]
    ELSE [kind |-> "property", column |-> 0, keys |-> OD_Keys(partition_keys)]

DbMap(h, column_dict) ==
    OD_FromPairs([i \in 1..Len(column_dict) |->
                    <<db_field_name(h[column_dict[i][2]]), column_dict[i][1]>>])

\* (mutant) a class body without __abstract__ takes it from its bases
IsAbstract_Inherited(cs, bases, abstract_attr) ==
    IF abstract_attr = "absent"
    THEN \E i \in 1..Len(bases) : cs[bases[i]].abstract
    ELSE abstract_attr = "True"

\* "short circuit __abstract__ inheritance": attrs.get('__abstract__', False)
\* of the class body alone, which holds "True", "False" or is "absent"
IsAbstract(cs, bases, abstract_attr) == abstract_attr = "True"

\* The strict ancestors of class c
RECURSIVE Ancestors(_, _)
Ancestors(cs, c) ==
    LET bs == {cs[c].bases[i] : i \in 1..Len(cs[c].bases)}
    IN bs \cup UNION {Ancestors(cs, b) : b \in bs}

\* type.__new__ refuses bases it cannot linearise: a class listed before one
\* of its own descendants.
ConsistentMRO(cs, bases) ==
    \A i, j \in 1..Len(bases) : i < j => bases[i] \notin Ancestors(cs, bases[j])

NoKlass == [bases |-> <<>>]

Failed(h, e) == [err |-> e, heap |-> h, klass |-> NoKlass]

\* ModelMetaClass.__new__(cls, name, bases, attrs): decls are the columns of
\* the class body in the order they were constructed, abstract_attr and
\* discriminator_value the __abstract__ and __discriminator_value__ of the
\* body (FALSE and "None" when the body has none).  Returns the error (""
\* for none), the heap as the call leaves it and the class.
MetaNew(h, cs, bases, decls, abstract_attr, discriminator_value) ==
    LET h0 == h \o [i \in 1..Len(decls) |-> decls[i][2]]
        attrs_columns == {<<decls[i][1], Len(h) + i>> : i \in 1..Len(decls)}
        inherited_columns == InheritedColumns(cs, bases, <<>>)
        is_abstract == IsAbstract(cs, bases, abstract_attr)
        local_definitions == SortByPosition(attrs_columns)
        is_polymorphic_base ==
            \E i \in 1..Len(local_definitions) :
                h0[local_definitions[i][2]].discriminator_column
        column_definitions == inherited_columns \o local_definitions
        discriminator_columns == DiscriminatorColumns(h0, column_definitions)
        is_polymorphic == Len(discriminator_columns) > 0
        discriminator_column_name ==
            IF discriminator_columns # <<>> THEN discriminator_columns[1][1] ELSE "None"
        discriminator_column ==
            IF discriminator_columns # <<>> THEN discriminator_columns[1][2] ELSE 0
        polymorphic_base ==
            IF is_polymorphic /\ ~is_polymorphic_base
            THEN GetPolymorphicBase(cs, bases) ELSE NoClass
        defined_columns == OD_FromPairs(column_definitions)
        st == TransformColumns(column_definitions,
                  [err |-> "",
                   has_partition_keys |-> HasPartitionKeys(h0, column_definitions),
                   heap |-> h0, column_dict |-> <<>>, primary_keys |-> <<>>])
        h1 == st.heap
        partition_keys == PartitionKeys(h1, st.primary_keys)
        clustering_keys == ClusteringKeys(h1, st.primary_keys)
        validation == ValidateColumns(h1, OD_Values(st.column_dict), {})
    IN  IF TooManyDiscriminators(discriminator_columns)
        THEN Failed(h0, "only one discriminator_column can be defined in a model")
        ELSE IF discriminator_value # "None" /\ ~is_polymorphic
        THEN Failed(h0, "__discriminator_value__ specified, but no base columns defined with discriminator_column=True")
        ELSE IF discriminator_column # 0 /\ IsCounterOrContainer(h0[discriminator_column])
        THEN Failed(h0, "counter and container columns cannot be used as discriminator columns")
        ELSE IF ~is_abstract /\ ~HasPrimaryKey(h0, column_definitions)
        THEN Failed(h0, "At least 1 primary key is required.")
        ELSE IF CounterWithData(h0, defined_columns)
        THEN Failed(h0, "counter models may not have data columns")
        ELSE IF st.err # ""
        THEN Failed(h1, st.err)
        ELSE IF Len(partition_keys) = 0 /\ ~is_abstract
        THEN Failed(h1, "at least one partition key must be defined")
        ELSE IF validation # ""
        THEN Failed(h1, validation)
        ELSE IF ~ConsistentMRO(cs, bases)
        THEN Failed(h1, "Cannot create a consistent method resolution order (MRO)")
        ELSE [err |-> "",
              heap |-> h1,
              klass |->
                [bases |-> bases,
                 abstract |-> is_abstract,
                 discriminator_value |-> discriminator_value,
                 _columns |-> st.column_dict,
                 _primary_keys |-> st.primary_keys,
                 _defined_columns |-> defined_columns,
                 _db_map |-> DbMap(h1, st.column_dict),
                 _pk_name |-> IF Len(partition_keys) = 1
                              THEN partition_keys[1][1] ELSE "None",
                 pk |-> PkAccessor(st.column_dict, partition_keys),
                 _partition_keys |-> partition_keys,
                 _clustering_keys |-> clustering_keys,
                 _has_counter |-> Len(CounterColumns(h0, defined_columns)) > 0,
                 _is_polymorphic_base |-> is_polymorphic_base,
                 _is_polymorphic |-> is_polymorphic,
                 _polymorphic_base |-> polymorphic_base,
                 _discriminator_column |-> discriminator_column,
                 _discriminator_column_name |-> discriminator_column_name]]

\* ------------------------------------------------- defining model classes

FieldNames == {"a", "b", "c"}

Key == Column(TRUE, FALSE, FALSE, "plain", "None", "None")
Part == Column(FALSE, TRUE, FALSE, "plain", "None", "None")
Data == Column(FALSE, FALSE, FALSE, "plain", "None", "None")
Disc == Column(FALSE, FALSE, TRUE, "plain", "None", "None")
Counter == Column(FALSE, FALSE, FALSE, "counter", "None", "None")

\* The columns a class body of the key specification declares ...
KeyPalette == {Key, Part, Data}

\* ... and those of the column-type specification.
TypePalette == {Key, Data, Disc, Counter}

\* The class bodies: up to n columns under distinct names, in the order
\* their column objects were constructed.
Decls(P, names, n) ==
    UNION {{s \in [1..k -> names \X P] :
                \A i, j \in 1..k : i # j => s[i][1] # s[j][1]} : k \in 0..n}

\* The base lists: distinct classes that exist.
BaseChoices(cs) ==
    UNION {{s \in [1..k -> 1..Len(cs)] :
                \A i, j \in 1..k : i # j => s[i] # s[j]} : k \in 0..MaxBases}

\* _discriminator_map as the metaclass leaves it: {} on a polymorphic base.
\* On the other classes it is None, and both readers raise before reading it;
\* the empty map stands for that None.
EmptyMap == [v \in {} |-> NoClass]

\* A class statement raised
DefinitionFailed == result.op = "define" /\ result.err # ""

\* A class statement: the metaclass runs once, at import; an exception it
\* raises ends the import, and no class is created.
DefineClass(P, names, discriminator_values, abstract_attrs, max_classes) ==
    /\ ~DefinitionFailed
    /\ Len(classes) < max_classes
    /\ \E bases \in BaseChoices(classes), decls \in Decls(P, names, MaxDecl),
          abstract_attr \in abstract_attrs, dv \in discriminator_values :
          LET r == MetaNew(heap, classes, bases, decls, abstract_attr, dv)
          IN /\ heap' = IF r.err = "" THEN r.heap ELSE SubSeq(r.heap, 1, Len(heap))
             /\ classes' = IF r.err = "" THEN Append(classes, r.klass) ELSE classes
             /\ discriminator_map' = IF r.err = "" THEN Append(discriminator_map, EmptyMap)
                                     ELSE discriminator_map
             /\ result' = [op |-> "define", err |-> r.err, bases |-> bases,
                           decls |-> decls, abstract |-> abstract_attr,
                           discriminator_value |-> dv]
    /\ UNCHANGED <<instances, vm_conservative, calls, querysets>>

NoResult == [op |-> "init", err |-> ""]

SchemaInit ==
    /\ heap = <<>>
    /\ classes = <<>>
    /\ discriminator_map = <<>>
    /\ instances = <<>>
    /\ vm_conservative = FALSE
    /\ calls = <<>>
    /\ querysets = <<>>
    /\ result = NoResult

\* Classes whose columns are keys and data columns
KeysNext == DefineClass(KeyPalette, FieldNames, {"None"}, {"absent", "True"}, MaxClasses)

SpecKeys == SchemaInit /\ [][KeysNext]_vars

\* Classes with discriminator and counter columns
TypesNext ==
    DefineClass(TypePalette, FieldNames, {"None", "d1"}, {"absent", "True"}, MaxClasses)

SpecTypes == SchemaInit /\ [][TypesNext]_vars

\* Column(clustering_order=order)
Ordered(col, order) == [col EXCEPT !.clustering_order = order]

\* Keys and data columns with and without a clustering order: a lower-case
\* one, one in mixed case, one that is no order
OrderPalette ==
    {Key, Part, Data,
     Ordered(Key, "asc"), Ordered(Key, "Desc"), Ordered(Key, "up"),
     Ordered(Part, "asc"), Ordered(Data, "asc")}

\* Classes whose columns carry clustering orders
OrderNext == DefineClass(OrderPalette, {"a", "b"}, {"None"}, {"absent", "True"}, MaxClasses)

SpecOrder == SchemaInit /\ [][OrderNext]_vars

\* ------------------------------------------------------ value managers

\* columns.BaseValueManager(instance, column, value)
ValueManager(value, explicit) ==
    [value |-> value, previous_value |-> value, explicit |-> explicit, changed |-> FALSE]

\* setval: the value is stored; the manager is marked changed when the value
\* differs from the current one, and on every assignment when the tracking
\* is the conservative one.
SetVal(vm, v, conservative) ==
    [vm EXCEPT !.value = v,
               !.changed = IF v # vm.value THEN TRUE ELSE vm.changed \/ conservative]

\* (mutant) the dirty flag survives the reset
ResetPreviousValue_KeepFlag(vm) == [vm EXCEPT !.previous_value = vm.value]

\* reset_previous_value
ResetPreviousValue(vm) == [vm EXCEPT !.previous_value = vm.value, !.changed = FALSE]

\* Column.validate(value) raises on a required column without a value ...
ColumnValidateFails(col, v) == col.required /\ v = "None"

\* The converted form of a value: "v1" becomes "V1", the others are their
\* own converted form
Coerced(v) == IF v = "v1" THEN "V1" ELSE v

\* ... and returns the value otherwise, converted when the column type
\* converts.
ColumnValidate(col, v) == IF col.coerces THEN Coerced(v) ELSE v

\* Column.to_python(value)
ToPython(col, v) == v

\* --------------------------------------------------------------- instances

Values == {"None", "v1", "v2"}

NOT_SET == "NOT_SET"

\* The classes an attribute of c is looked up in, c first: the bases depth
\* first, each class at its last place
RECURSIVE DepthFirst(_, _)
DepthFirst(cs, todo) ==
    IF todo = <<>> THEN <<>>
    ELSE <<Head(todo)>> \o DepthFirst(cs, cs[Head(todo)].bases) \o DepthFirst(cs, Tail(todo))

Mro(cs, c) ==
    LET walk == DepthFirst(cs, <<c>>)
    IN SelectSeq([i \in 1..Len(walk) |-> <<walk[i], i>>],
                 LAMBDA e : \A j \in 1..Len(walk) : walk[j] = e[1] => j <= e[2])

\* class Cls(...): __default_ttl__ = ttl
WithDefaultTTL(klass, ttl) == klass @@ [default_ttl |-> ttl]

\* The first class of the resolution order whose body sets __default_ttl__,
\* else BaseModel.__default_ttl__ = None
RECURSIVE FirstDefaultTTL(_, _)
FirstDefaultTTL(cs, order) ==
    IF order = <<>> THEN "None"
    ELSE IF "default_ttl" \in DOMAIN cs[Head(order)[1]]
    THEN cs[Head(order)[1]].default_ttl
    ELSE FirstDefaultTTL(cs, Tail(order))

\* self.__default_ttl__
DefaultTTL(cs, c) == FirstDefaultTTL(cs, Mro(cs, c))

ColumnNames(klass) == {klass._columns[i][1] : i \in 1..Len(klass._columns)}

\* The keyword arguments of a call: values for some of the names
Kwargs(names, values) == UNION {[S -> values] : S \in SUBSET names}

\* BaseModel.__init__(self, **values)
NewInstance(h, cs, c, values) ==
    [cls |-> c,
     _values |-> [name \in ColumnNames(cs[c]) |->
                    LET col == h[OD_Get(cs[c]._columns, name)]
                        value == IF name \in DOMAIN values THEN values[name] ELSE "None"
                    IN [ValueManager(ToPython(col, value), FALSE)
                            EXCEPT !.explicit = name \in DOMAIN values]],
     _ttl |-> DefaultTTL(cs, c),
     _timestamp |-> "None",
     _transaction |-> "None",
     _is_persisted |-> FALSE,
     _batch |-> "None",
     _timeout |-> NOT_SET,
     consistency |-> "None",
     _if_not_exists |-> FALSE]

\* ColumnDescriptor.__set__ through setattr(self, name, value)
SetAttr(inst, name, v, conservative) ==
    [inst EXCEPT !._values[name] = SetVal(@, v, conservative)]

\* (mutant) every persisted instance can be updated
CanUpdate_Persisted(cs, inst) == inst._is_persisted

\* _can_update
CanUpdate(cs, inst) ==
    /\ inst._is_persisted
    /\ \A i \in 1..Len(cs[inst.cls]._primary_keys) :
          ~inst._values[cs[inst.cls]._primary_keys[i][1]].changed

\* get_changed_columns
GetChangedColumns(inst) == {k \in DOMAIN inst._values : inst._values[k].changed}

\* The pk shortcut read: the descriptor's column, or the tuple of the
\* property's keys
PkGet(h, cs, inst) ==
    LET pk == cs[inst.cls].pk
    IN IF pk.kind = "descriptor"
       THEN inst._values[h[pk.column].column_name].value
       ELSE [i \in 1..Len(pk.keys) |-> inst._values[pk.keys[i]].value]

\* zip(partition_keys.keys(), val) of the property's setter
RECURSIVE SetZipped(_, _, _, _)
SetZipped(inst, keys, val, conservative) ==
    IF keys = <<>> \/ val = <<>> THEN inst
    ELSE SetZipped(SetAttr(inst, Head(keys), Head(val), conservative),
                   Tail(keys), Tail(val), conservative)

\* The pk shortcut written
PkSet(h, cs, inst, val, conservative) ==
    LET pk == cs[inst.cls].pk
    IN IF pk.kind = "descriptor"
       THEN SetAttr(inst, h[pk.column].column_name, val, conservative)
       ELSE SetZipped(inst, pk.keys, val, conservative)

\* (mutant) the default replaces a null the caller supplied, too
DefaultApplied_Always(col, vm) ==
    IF vm.value = "None" /\ col.has_default THEN col.default ELSE vm.value

\* "if v is None and not self._values[name].explicit and col.has_default:
\* v = col.get_default()"
DefaultApplied(col, vm) ==
    IF vm.value = "None" /\ ~vm.explicit /\ col.has_default THEN col.default ELSE vm.value

\* validate(): the columns in order, each read, defaulted, validated and
\* written back; stops at the first column that does not validate.
RECURSIVE Validate(_, _, _, _)
Validate(h, cols, inst, conservative) ==
    IF cols = <<>> THEN [err |-> "", inst |-> inst]
    ELSE LET name == Head(cols)[1]
             col == h[Head(cols)[2]]
             v == DefaultApplied(col, inst._values[name])
         IN IF ColumnValidateFails(col, v)
            THEN [err |-> "ValidationError", inst |-> inst]
            ELSE Validate(h, Tail(cols),
                          SetAttr(inst, name, ColumnValidate(col, v), conservative),
                          conservative)

\* (mutant) the pending ttl and timestamp outlive the call
Commit_KeepsOptions(cs, inst) ==
    [inst EXCEPT !._values = [k \in DOMAIN inst._values |-> ResetPreviousValue(inst._values[k])],
                 !._is_persisted = TRUE]

\* (mutant) the commit clears every pending option
Commit_ClearsOptions(cs, inst) ==
    [inst EXCEPT !._values = [k \in DOMAIN inst._values |-> ResetPreviousValue(inst._values[k])],
                 !._is_persisted = TRUE,
                 !._ttl = DefaultTTL(cs, inst.cls),
                 !._timestamp = "None",
                 !._batch = "None",
                 !._transaction = "None",
                 !.consistency = "None",
                 !._if_not_exists = FALSE]

\* "reset the value managers" and what follows it in save() and update()
Commit(cs, inst) ==
    [inst EXCEPT !._values = [k \in DOMAIN inst._values |-> ResetPreviousValue(inst._values[k])],
                 !._is_persisted = TRUE,
                 !._ttl = DefaultTTL(cs, inst.cls),
                 !._timestamp = "None"]

NoCall == [op |-> "none"]

\* self.__dmlquery__(self.__class__, self, batch=..., ...): what the
\* executor is handed, with the instance's values as they are then
DmlCall(op, inst) ==
    [op |-> op,
     values |-> [k \in DOMAIN inst._values |-> inst._values[k].value],
     batch |-> inst._batch,
     ttl |-> IF op = "delete" THEN "absent" ELSE inst._ttl,
     timestamp |-> inst._timestamp,
     consistency |-> inst.consistency,
     if_not_exists |-> IF op = "save" THEN inst._if_not_exists ELSE FALSE,
     transaction |-> IF op = "delete" THEN "absent" ELSE inst._transaction,
     timeout |-> inst._timeout]

\* (mutant) the base class is saved like any other
RejectsPolymorphicBase_Never(klass) == FALSE

\* "handle polymorphic models": only concrete classes are saved
RejectsPolymorphicBase(klass) == klass._is_polymorphic /\ klass._is_polymorphic_base

\* setattr(self, self._discriminator_column_name, self.__discriminator_value__)
Stamp(cs, inst, conservative) ==
    IF cs[inst.cls]._is_polymorphic
    THEN SetAttr(inst, cs[inst.cls]._discriminator_column_name,
                 cs[inst.cls].discriminator_value, conservative)
    ELSE inst

\* (mutant) the commit steps run although the executor raised
Persist_CommitsOnFailure(h, cs, inst, op, err, dml_ok, conservative) ==
    LET stamped == Stamp(cs, inst, conservative)
        validated == Validate(h, cs[inst.cls]._columns, stamped, conservative)
    IN IF RejectsPolymorphicBase(cs[inst.cls])
       THEN [err |-> err, inst |-> inst, dml |-> NoCall]
       ELSE IF validated.err # ""
       THEN [err |-> validated.err, inst |-> validated.inst, dml |-> NoCall]
       ELSE [err |-> IF dml_ok THEN "" ELSE "executor failed",
             inst |-> Commit(cs, validated.inst),
             dml |-> DmlCall(op, validated.inst)]

\* The polymorphic stamp, validate(), the executor and the commit, shared by
\* save() and update(); dml_ok is whether the executor returns.
Persist(h, cs, inst, op, err, dml_ok, conservative) ==
    LET stamped == Stamp(cs, inst, conservative)
        validated == Validate(h, cs[inst.cls]._columns, stamped, conservative)
    IN IF RejectsPolymorphicBase(cs[inst.cls])
       THEN [err |-> err, inst |-> inst, dml |-> NoCall]
       ELSE IF validated.err # ""
       THEN [err |-> validated.err, inst |-> validated.inst, dml |-> NoCall]
       ELSE IF ~dml_ok
       THEN [err |-> "executor failed", inst |-> validated.inst,
             dml |-> DmlCall(op, validated.inst)]
       ELSE [err |-> "", inst |-> Commit(cs, validated.inst),
             dml |-> DmlCall(op, validated.inst)]

\* save()
SaveInstance(h, cs, inst, dml_ok, conservative) ==
    Persist(h, cs, inst, "save", "cannot save polymorphic base model", dml_ok, conservative)

\* The first loop of update(): items is values.items() in the order the
\* dictionary yields them.
RECURSIVE UpdateAssign(_, _, _, _, _)
UpdateAssign(h, klass, inst, items, conservative) ==
    IF items = <<>> THEN [err |-> "", inst |-> inst]
    ELSE LET k == Head(items)[1]
             v == Head(items)[2]
         IN IF ~OD_Has(klass._columns, k)
            THEN [err |-> "has no column named", inst |-> inst]
            ELSE IF h[OD_Get(klass._columns, k)].primary_key
            THEN [err |-> "Cannot apply update to primary key", inst |-> inst]
            ELSE UpdateAssign(h, klass, SetAttr(inst, k, v, conservative),
                              Tail(items), conservative)

\* update(**values)
UpdateInstance(h, cs, inst, items, dml_ok, conservative) ==
    LET assigned == UpdateAssign(h, cs[inst.cls], inst, items, conservative)
    IN IF assigned.err # ""
       THEN [err |-> assigned.err, inst |-> assigned.inst, dml |-> NoCall]
       ELSE Persist(h, cs, assigned.inst, "update",
                    "cannot update polymorphic base model", dml_ok, conservative)

\* (mutant) delete() marks the instance as no longer stored
DeleteInstance_Unpersists(inst, dml_ok) ==
    [err |-> IF dml_ok THEN "" ELSE "executor failed",
     inst |-> IF dml_ok THEN [inst EXCEPT !._is_persisted = FALSE] ELSE inst,
     dml |-> DmlCall("delete", inst)]

\* delete(): the executor is called with the current options; the method
\* assigns nothing
DeleteInstance(inst, dml_ok) ==
    [err |-> IF dml_ok THEN "" ELSE "executor failed",
     inst |-> inst,
     dml |-> DmlCall("delete", inst)]

\* The ttl values: none, the class default of the fixture, another
TtlValues == {"None", "60", "90"}

\* (mutant) timeout() without its assertion
TimeoutAllowed_Always(inst) == TRUE

\* assert self._batch is None, 'Setting both timeout and batch is not supported'
TimeoutAllowed(inst) == inst._batch = "None"

\* assert self._timeout is connection.NOT_SET, ...
BatchAllowed(inst) == inst._timeout = NOT_SET

\* ------------------------------------------------ operations on instances

MaxInstances == 1       \* instances alive at once
MaxObjects == 2         \* instances and query sets alive at once

\* Cls(**values)
ConstructUpTo(max, class_ids, values) ==
    /\ Len(instances) < max
    /\ \E c \in class_ids :
          \E kw \in Kwargs(ColumnNames(classes[c]), values) :
             /\ instances' = Append(instances, NewInstance(heap, classes, c, kw))
             /\ result' = [op |-> "init", err |-> "", inst |-> Len(instances) + 1,
                           dml |-> NoCall]
    /\ UNCHANGED <<heap, classes, discriminator_map, vm_conservative, calls, querysets>>

Construct(class_ids, values) == ConstructUpTo(MaxInstances, class_ids, values)

\* instance.<column> = v
Assign ==
    /\ \E i \in 1..Len(instances) :
          \E name \in DOMAIN instances[i]._values, v \in Values :
             /\ instances' = [instances EXCEPT ![i] = SetAttr(@, name, v, vm_conservative)]
             /\ result' = [op |-> "setattr", err |-> "", inst |-> i, dml |-> NoCall,
                           name |-> name]
    /\ UNCHANGED <<heap, classes, discriminator_map, vm_conservative, calls, querysets>>

\* The values assigned through pk: one for the descriptor, a tuple as long
\* as the partition key for the property
PkValues(klass) ==
    IF klass.pk.kind = "descriptor" THEN Values \ {"None"}
    ELSE [1..Len(klass.pk.keys) -> Values \ {"None"}]

\* instance.pk = val
AssignPk ==
    /\ \E i \in 1..Len(instances) :
          \E val \in PkValues(classes[instances[i].cls]) :
             /\ instances' = [instances EXCEPT
                                ![i] = PkSet(heap, classes, @, val, vm_conservative)]
             /\ result' = [op |-> "setpk", err |-> "", inst |-> i, dml |-> NoCall,
                           val |-> val]
    /\ UNCHANGED <<heap, classes, discriminator_map, vm_conservative, calls, querysets>>

\* instance.save(); the executor returns or raises
Save ==
    /\ \E i \in 1..Len(instances), dml_ok \in BOOLEAN :
          LET r == SaveInstance(heap, classes, instances[i], dml_ok, vm_conservative)
          IN /\ instances' = [instances EXCEPT ![i] = r.inst]
             /\ result' = [op |-> "save", err |-> r.err, inst |-> i, dml |-> r.dml]
    /\ UNCHANGED <<heap, classes, discriminator_map, vm_conservative, calls, querysets>>

MaxUpdateArgs == 2      \* keyword arguments of one update() call

\* The names update() is called with: the model's columns and a name that is
\* no column of any model
UpdateNames(klass) == ColumnNames(klass) \cup {"zz"}

\* At most n keyword arguments
UpTo(n, names, values) == {kw \in Kwargs(names, values) : Cardinality(DOMAIN kw) <= n}

\* The orders in which a dictionary may yield its items
ItemOrders(kw) ==
    {s \in [1..Cardinality(DOMAIN kw) -> {<<k, kw[k]>> : k \in DOMAIN kw}] :
        \A i, j \in 1..Len(s) : i # j => s[i] # s[j]}

\* instance.update(**values)
Update ==
    /\ \E i \in 1..Len(instances), dml_ok \in BOOLEAN :
          \E kw \in UpTo(MaxUpdateArgs, UpdateNames(classes[instances[i].cls]), {"v1"}) :
             \E items \in ItemOrders(kw) :
                LET r == UpdateInstance(heap, classes, instances[i], items, dml_ok,
                                        vm_conservative)
                IN /\ instances' = [instances EXCEPT ![i] = r.inst]
                   /\ result' = [op |-> "update", err |-> r.err, inst |-> i,
                                 dml |-> r.dml, names |-> DOMAIN kw]
    /\ UNCHANGED <<heap, classes, discriminator_map, vm_conservative, calls, querysets>>

\* instance.delete(); the executor returns or raises
Delete ==
    /\ \E i \in 1..Len(instances), dml_ok \in BOOLEAN :
          LET r == DeleteInstance(instances[i], dml_ok)
          IN /\ instances' = [instances EXCEPT ![i] = r.inst]
             /\ result' = [op |-> "delete", err |-> r.err, inst |-> i, dml |-> r.dml]
    /\ UNCHANGED <<heap, classes, discriminator_map, vm_conservative, calls, querysets>>

NoQuerySet == [model |-> NoClass]

\* QuerySetDescriptor.__get__(obj, model)
Objects(h, cs, model) ==
    IF cs[model].abstract
    THEN [err |-> "cannot execute queries against abstract models", queryset |-> NoQuerySet]
    ELSE [err |-> "",
          queryset |->
             [model |-> model,
              filters |->
                 IF /\ cs[model]._is_polymorphic
                    /\ ~cs[model]._is_polymorphic_base
                    /\ \/ h[cs[model]._discriminator_column].partition_key
                       \/ h[cs[model]._discriminator_column].index
                 THEN <<<<cs[model]._discriminator_column_name,
                          cs[model].discriminator_value>>>>
                 ELSE <<>>]]

\* BaseModel.__len__ is the number of columns, and the accessors test
\* "if instance:": an instance of a class without columns counts as no
\* instance
Truthy(cs, inst) == Len(cs[inst.cls]._columns) > 0

\* The instance attribute an accessor's setter assigns
InstanceAttr ==
    [ttl |-> "_ttl", consistency |-> "consistency", timestamp |-> "_timestamp",
     iff |-> "_transaction", if_not_exists |-> "_if_not_exists"]

\* The query set attribute that carries the option
QuerySetAttr ==
    [ttl |-> "_ttl", consistency |-> "_consistency", timestamp |-> "_timestamp",
     iff |-> "_transaction", if_not_exists |-> "_if_not_exists"]

Options == DOMAIN InstanceAttr

\* model.__queryset__(model): a query set with no option set; setter is the
\* accessor whose closure holds the query set
ModelQuerySet(model, filters, setter) ==
    [model |-> model, filters |-> filters, setter |-> setter,
     _ttl |-> "None", _consistency |-> "None", _timestamp |-> "None",
     _transaction |-> "None", _if_not_exists |-> FALSE]

NoReturn == [kind |-> "none", id |-> 0]

\* ttl, consistency and iff build the query set with model.__queryset__(model);
\* timestamp and if_not_exists return a method of model.objects
BuildsOwnQuerySet(option) == option \in {"ttl", "consistency", "iff"}

\* The setter of a class-level access: the query set it returns carries the
\* option. iff reads the clause from model.objects.iff(...), and timestamp
\* and if_not_exists are methods of model.objects, which raises for an
\* abstract model.
ClassSetter(h, cs, insts, qss, option, model, v) ==
    LET o == Objects(h, cs, model)
        own == BuildsOwnQuerySet(option)
        qs == IF own THEN ModelQuerySet(model, <<>>, option)
              ELSE ModelQuerySet(model, o.queryset.filters, "none")
    IN IF o.err # "" /\ (~own \/ option = "iff")
       THEN [err |-> o.err, instances |-> insts, querysets |-> qss, returned |-> NoReturn]
       ELSE [err |-> "", instances |-> insts,
             querysets |-> Append(qss, [qs EXCEPT ![QuerySetAttr[option]] = v]),
             returned |-> [kind |-> "queryset", id |-> Len(qss) + 1]]

\* The setter of an access through instance i. An unprepared iff reads the
\* clause from instance.objects.iff(...).
InstanceSetter(h, cs, insts, qss, option, i, v, prepared) ==
    IF option = "iff" /\ ~prepared /\ Objects(h, cs, insts[i].cls).err # ""
    THEN [err |-> Objects(h, cs, insts[i].cls).err, instances |-> insts,
          querysets |-> qss, returned |-> NoReturn]
    ELSE [err |-> "",
          instances |-> [insts EXCEPT ![i][InstanceAttr[option]] = v],
          querysets |-> qss, returned |-> [kind |-> "instance", id |-> i]]

\* <Descriptor>.__get__(instance, model) and the call of the setter it
\* returns; i = 0 is the access through the class
Accessor(h, cs, insts, qss, option, i, model, v, prepared) ==
    IF i # 0 /\ Truthy(cs, insts[i])
    THEN InstanceSetter(h, cs, insts, qss, option, i, v, prepared)
    ELSE ClassSetter(h, cs, insts, qss, option, model, v)

\* The values an option is set to
OptionValues ==
    [ttl |-> {"None", "60"}, consistency |-> {"None", "QUORUM"},
     timestamp |-> {"None", "ts1"}, iff |-> {"None", "c1"},
     if_not_exists |-> {FALSE, TRUE}]

\* instance.<option>(v)
InstanceOption(option, values, prepareds) ==
    /\ \E i \in 1..Len(instances), v \in values, prepared \in prepareds :
          LET r == Accessor(heap, classes, instances, querysets, option, i,
                            instances[i].cls, v, prepared)
          IN /\ Len(r.instances) + Len(r.querysets) <= MaxObjects
             /\ instances' = r.instances
             /\ querysets' = r.querysets
             /\ result' = [op |-> option, err |-> r.err, inst |-> i, dml |-> NoCall,
                           via |-> "instance", value |-> v, returned |-> r.returned]
    /\ UNCHANGED <<heap, classes, discriminator_map, vm_conservative, calls>>

\* Cls.<option>(v)
ClassOption(option, values) ==
    /\ \E c \in 1..Len(classes), v \in values :
          LET r == Accessor(heap, classes, instances, querysets, option, 0, c, v, FALSE)
          IN /\ Len(r.instances) + Len(r.querysets) <= MaxObjects
             /\ instances' = r.instances
             /\ querysets' = r.querysets
             /\ result' = [op |-> option, err |-> r.err, inst |-> 0, dml |-> NoCall,
                           via |-> "class", value |-> v, returned |-> r.returned]
    /\ UNCHANGED <<heap, classes, discriminator_map, vm_conservative, calls>>

\* setter = Cls.ttl; setter(a); setter(b): the setter kept from one access
\* writes the query set of its closure again and returns it
SetterAgain ==
    /\ \E q \in 1..Len(querysets) :
          /\ querysets[q].setter \in {"ttl", "consistency"}
          /\ \E v \in OptionValues[querysets[q].setter] \ {"None"} :
                /\ querysets' = [querysets EXCEPT ![q][QuerySetAttr[querysets[q].setter]] = v]
                /\ result' = [op |-> querysets[q].setter, err |-> "", inst |-> 0,
                              dml |-> NoCall, via |-> "setter", value |-> v,
                              returned |-> [kind |-> "queryset", id |-> q]]
    /\ UNCHANGED <<heap, classes, discriminator_map, instances, vm_conservative, calls>>

\* instance.ttl(ts)
Ttl == InstanceOption("ttl", TtlValues, {FALSE})

\* instance.timestamp(ts)
Timestamp == InstanceOption("timestamp", OptionValues.timestamp, {FALSE})

\* instance.consistency(c)
Consistency == InstanceOption("consistency", {"QUORUM"}, {FALSE})

\* instance.iff(clause), instance.iff(**kwargs)
Iff == InstanceOption("iff", {"c1"}, BOOLEAN)

\* instance.if_not_exists(True)
IfNotExists == InstanceOption("if_not_exists", {TRUE}, {FALSE})

\* Cls.ttl(ts)
ClassTtl == ClassOption("ttl", {"60"})

\* Cls.timestamp(ts)
ClassTimestamp == ClassOption("timestamp", {"ts1"})

\* Cls.consistency(c)
ClassConsistency == ClassOption("consistency", {"QUORUM"})

\* Cls.iff(**kwargs)
ClassIff == ClassOption("iff", {"c1"})

\* Cls.if_not_exists(True)
ClassIfNotExists == ClassOption("if_not_exists", {TRUE})

\* instance.timeout(t)
Timeout ==
    /\ \E i \in 1..Len(instances), t \in {NOT_SET, "None", "t1"} :
          IF TimeoutAllowed(instances[i])
          THEN /\ instances' = [instances EXCEPT ![i]._timeout = t]
               /\ result' = [op |-> "timeout", err |-> "", inst |-> i, dml |-> NoCall]
          ELSE /\ instances' = instances
               /\ result' = [op |-> "timeout", err |-> "AssertionError", inst |-> i,
                             dml |-> NoCall]
    /\ UNCHANGED <<heap, classes, discriminator_map, vm_conservative, calls, querysets>>

\* instance.batch(b)
Batch ==
    /\ \E i \in 1..Len(instances), b \in {"None", "b1"} :
          IF BatchAllowed(instances[i])
          THEN /\ instances' = [instances EXCEPT ![i]._batch = b]
               /\ result' = [op |-> "batch", err |-> "", inst |-> i, dml |-> NoCall]
          ELSE /\ instances' = instances
               /\ result' = [op |-> "batch", err |-> "AssertionError", inst |-> i,
                             dml |-> NoCall]
    /\ UNCHANGED <<heap, classes, discriminator_map, vm_conservative, calls, querysets>>

\* ------------------------------------------------------ the model classes

\* The class statements of a module, run in order
RECURSIVE DefineAll(_, _)
DefineAll(stmts, st) ==
    IF stmts = <<>> THEN st
    ELSE LET s == Head(stmts)
             r == MetaNew(st.heap, st.classes, s.bases, s.decls, s.abstract,
                          s.discriminator_value)
         IN DefineAll(Tail(stmts),
                      [heap |-> r.heap, classes |-> Append(st.classes, r.klass)])

ClassStmt(bases, decls, abstract_attr, dv) ==
    [bases |-> bases, decls |-> decls, abstract |-> abstract_attr,
     discriminator_value |-> dv]

\* class Plain(Model): k = Key(required); x = Data
\* class Composite(Model): p = Part; q = Part
\* class Base(Model): k = Key(required); t = Disc
\* class Sub(Base): __discriminator_value__ = 'd1'
InstanceModels ==
    DefineAll(<<ClassStmt(<<>>, <<<<"k", Required(Key)>>, <<"x", Data>>>>, "absent", "None"),
                ClassStmt(<<>>, <<<<"p", Part>>, <<"q", Part>>>>, "absent", "None"),
                ClassStmt(<<>>, <<<<"k", Required(Key)>>, <<"t", Disc>>>>, "absent", "None"),
                ClassStmt(<<3>>, <<>>, "absent", "d1")>>,
              [heap |-> <<>>, classes |-> <<>>])

\* class Plain(Model): k = Key(required); x = Data
\* class Timed(Model): __default_ttl__ = 60; k = Key(required); x = Data
\* class Late(Timed): pass
TtlModels ==
    LET st == DefineAll(<<ClassStmt(<<>>, <<<<"k", Required(Key)>>, <<"x", Data>>>>,
                                    "absent", "None"),
                          ClassStmt(<<>>, <<<<"k", Required(Key)>>, <<"x", Data>>>>,
                                    "absent", "None"),
                          ClassStmt(<<2>>, <<>>, "absent", "None")>>,
                        [heap |-> <<>>, classes |-> <<>>])
    IN [heap |-> st.heap,
        classes |-> [i \in 1..Len(st.classes) |->
                        IF i = 2 THEN WithDefaultTTL(st.classes[i], "60")
                        ELSE st.classes[i]]]

TtlInit ==
    /\ heap = TtlModels.heap
    /\ classes = TtlModels.classes
    /\ discriminator_map = [i \in 1..Len(TtlModels.classes) |-> EmptyMap]
    /\ instances = <<>>
    /\ vm_conservative \in BOOLEAN
    /\ calls = <<>>
    /\ querysets = <<>>
    /\ result = NoResult

\* The pending options of the next write, and the writes
TtlNext ==
    \/ Construct(1..Len(classes), {"v1"})
    \/ Ttl
    \/ Timestamp
    \/ Save
    \/ Update

SpecTtl == TtlInit /\ [][TtlNext]_vars

\* Deletions of instances of the subclass, in every condition the other
\* methods leave them in
DeleteNext ==
    \/ Construct({Len(classes)}, {"v1"})
    \/ Assign
    \/ Ttl
    \/ Timestamp
    \/ Batch
    \/ Timeout
    \/ Save
    \/ Delete

SpecDelete == TtlInit /\ [][DeleteNext]_vars

InstInit ==
    /\ heap = InstanceModels.heap
    /\ classes = InstanceModels.classes
    /\ discriminator_map = [i \in 1..Len(InstanceModels.classes) |-> EmptyMap]
    /\ instances = <<>>
    /\ vm_conservative \in BOOLEAN
    /\ calls = <<>>
    /\ querysets = <<>>
    /\ result = NoResult

\* Field access and persistence
InstNext ==
    \/ Construct(1..Len(classes), {"v1"})
    \/ Assign
    \/ AssignPk
    \/ Save
    \/ Update
    \/ Delete

SpecInst == InstInit /\ [][InstNext]_vars

\* Batch, timeout and persistence
OptionsNext ==
    \/ Construct(1..Len(classes), {"v1"})
    \/ Timeout
    \/ Batch
    \/ Save
    \/ Update
    \/ Delete

SpecOptions == InstInit /\ [][OptionsNext]_vars

\* ------------------------------------------------- polymorphic resolver

\* klass.__subclasses__(): the direct subclasses, in definition order
Subclasses(cs, c) ==
    SortByPosition({<<"", j>> : j \in {j \in 1..Len(cs) :
                        \E i \in 1..Len(cs[j].bases) : cs[j].bases[i] = c}})

\* (mutant) the map is rebuilt with each entry
MapSet_Replacing(map, key, klass) == [v \in {key} |-> klass]

\* cls._discriminator_map[key] = klass
MapSet(map, key, klass) ==
    [v \in DOMAIN map \cup {key} |-> IF v = key THEN klass ELSE map[v]]

\* The first statement of _discover(klass): a class that is no polymorphic
\* base and has a discriminator value is registered under it
Register(cs, klass, map) ==
    IF ~cs[klass]._is_polymorphic_base /\ cs[klass].discriminator_value # "None"
    THEN MapSet(map, cs[klass].discriminator_value, klass)
    ELSE map

\* (mutant) the walk stops below the direct subclasses of the base
RECURSIVE Discover_Shallow(_, _, _)
Discover_Shallow(cs, todo, map) ==
    IF todo = <<>> THEN map
    ELSE Discover_Shallow(cs,
             (IF cs[Head(todo)]._is_polymorphic_base
              THEN OD_Values(Subclasses(cs, Head(todo))) ELSE <<>>) \o Tail(todo),
             Register(cs, Head(todo), map))

\* _discover(klass) over a worklist: the class is registered, then its
\* subclasses are walked, then the rest
RECURSIVE Discover(_, _, _)
Discover(cs, todo, map) ==
    IF todo = <<>> THEN map
    ELSE Discover(cs, OD_Values(Subclasses(cs, Head(todo))) \o Tail(todo),
                  Register(cs, Head(todo), map))

\* _discover_polymorphic_submodels
DiscoverPolymorphicSubmodels(cs, maps, c) ==
    IF ~cs[c]._is_polymorphic_base
    THEN [err |-> "_discover_polymorphic_submodels can only be called on polymorphic base classes",
          maps |-> maps]
    ELSE [err |-> "", maps |-> [maps EXCEPT ![c] = Discover(cs, <<c>>, maps[c])]]

\* _get_model_by_discriminator_value on a polymorphic base: _discriminator_map.get(key)
GetModelByDiscriminatorValue(maps, c, key) ==
    IF key \in DOMAIN maps[c] THEN maps[c][key] ELSE NoClass

\* (mutant) every class passes for a subclass
IsSubclass_Any(cs, klass, cls) == TRUE

\* issubclass(klass, cls)
IsSubclass(cs, klass, cls) == klass = cls \/ cls \in Ancestors(cs, klass)

\* (mutant) a row without a discriminator value is looked up like any other
MissingDiscriminator_Never(disc_key) == FALSE

\* "if disc_key is None"
MissingDiscriminator(disc_key) == disc_key = "None"

\* (mutant) a miss is final
MissedLookup_Final(klass) == FALSE

\* "if klass is None": the lookup missed, and the hierarchy is walked
MissedLookup(klass) == klass = NoClass

\* field_dict: the items of the raw map under the names _db_map gives them
FieldDict(db_map, items) ==
    OD_FromPairs([i \in 1..Len(items) |->
        <<IF OD_Has(db_map, items[i][1]) THEN OD_Get(db_map, items[i][1]) ELSE items[i][1],
          items[i][2]>>])

\* dict((k, v) for k, v in field_dict.items() if k in klass._columns.keys())
RECURSIVE OnlyColumns(_, _)
OnlyColumns(field_dict, klass) ==
    IF field_dict = <<>> THEN <<>>
    ELSE (IF OD_Has(klass._columns, Head(field_dict)[1]) THEN <<Head(field_dict)>> ELSE <<>>)
         \o OnlyColumns(Tail(field_dict), klass)

\* klass(**field_dict), then instance._is_persisted = True
Materialize(h, cs, klass, field_dict) ==
    [NewInstance(h, cs, klass,
                 [n \in {field_dict[i][1] : i \in 1..Len(field_dict)} |-> OD_Get(field_dict, n)])
        EXCEPT !._is_persisted = TRUE]

NoInstance == [cls |-> NoClass]

\* _construct_instance(cls, values), items the items of values
ConstructInstance(h, cs, maps, cls, items) ==
    LET field_dict == FieldDict(cs[cls]._db_map, items)
        name == cs[cls]._discriminator_column_name
        disc_key == IF OD_Has(field_dict, name) THEN OD_Get(field_dict, name) ELSE "None"
        poly_base == IF cs[cls]._is_polymorphic_base THEN cls ELSE cs[cls]._polymorphic_base
        first == GetModelByDiscriminatorValue(maps, poly_base, disc_key)
        walked == DiscoverPolymorphicSubmodels(cs, maps, poly_base)
        maps1 == IF MissedLookup(first) THEN walked.maps ELSE maps
        klass == IF MissedLookup(first)
                 THEN GetModelByDiscriminatorValue(maps1, poly_base, disc_key)
                 ELSE first
    IN IF ~cs[cls]._is_polymorphic
       THEN [err |-> "", maps |-> maps, walked |-> FALSE,
             instance |-> Materialize(h, cs, cls, field_dict)]
       ELSE IF MissingDiscriminator(disc_key)
       THEN [err |-> "discriminator value was not found in values", maps |-> maps,
             walked |-> FALSE, instance |-> NoInstance]
       ELSE IF klass = NoClass
       THEN [err |-> "unrecognized discriminator column", maps |-> maps1,
             walked |-> TRUE, instance |-> NoInstance]
       ELSE IF ~IsSubclass(cs, klass, cls)
       THEN [err |-> "is not a subclass of", maps |-> maps1,
             walked |-> MissedLookup(first), instance |-> NoInstance]
       ELSE [err |-> "", maps |-> maps1, walked |-> MissedLookup(first),
             instance |-> Materialize(h, cs, klass, OnlyColumns(field_dict, cs[klass]))]

\* The rows the database hands back: values under database field names
RawNames == {"k", "t_db", "x_db"}

RawValues == [k |-> {"v1"}, t_db |-> {"None", "d1", "d2"}, x_db |-> {"v2"}]

\* One raw map: the key always, the other names when they are in S; its
\* items in the order k, t_db, x_db
RawItems(S, val) ==
    <<<<"k", val["k"]>>>>
    \o (IF "t_db" \in S THEN <<<<"t_db", val["t_db"]>>>> ELSE <<>>)
    \o (IF "x_db" \in S THEN <<<<"x_db", val["x_db"]>>>> ELSE <<>>)

RawMaps ==
    {RawItems(S, val) : S \in SUBSET (RawNames \ {"k"}),
                        val \in [k : RawValues.k, t_db : RawValues.t_db, x_db : RawValues.x_db]}

\* The values the discriminator map of c's polymorphic base holds
KnownValues(cs, maps, c) ==
    IF ~cs[c]._is_polymorphic THEN {}
    ELSE IF cs[c]._is_polymorphic_base THEN DOMAIN maps[c]
    ELSE DOMAIN maps[cs[c]._polymorphic_base]

\* Cls._construct_instance(values), as the query layer calls it on a row
Construct_Instance ==
    /\ ~DefinitionFailed
    /\ \E c \in 1..Len(classes), items \in RawMaps :
          LET r == ConstructInstance(heap, classes, discriminator_map, c, items)
          IN /\ discriminator_map' = r.maps
             /\ result' = [op |-> "construct", err |-> r.err, cls |-> c, values |-> items,
                           walked |-> r.walked, instance |-> r.instance,
                           known |-> KnownValues(classes, discriminator_map, c)]
    /\ UNCHANGED <<heap, classes, instances, vm_conservative, calls, querysets>>

\* Cls._discover_polymorphic_submodels()
DiscoverSubmodels ==
    /\ ~DefinitionFailed
    /\ \E c \in 1..Len(classes) :
          LET r == DiscoverPolymorphicSubmodels(classes, discriminator_map, c)
          IN /\ discriminator_map' = r.maps
             /\ result' = [op |-> "discover", err |-> r.err, cls |-> c]
    /\ UNCHANGED <<heap, classes, instances, vm_conservative, calls, querysets>>

\* class Base(Model): k = Key; t = Disc(db_field='t_db')
PolyModels ==
    DefineAll(<<ClassStmt(<<>>, <<<<"k", Key>>, <<"t", DbField(Disc, "t_db")>>>>,
                          "absent", "None")>>,
              [heap |-> <<>>, classes |-> <<>>])

PolyInit ==
    /\ heap = PolyModels.heap
    /\ classes = PolyModels.classes
    /\ discriminator_map = [i \in 1..Len(PolyModels.classes) |-> EmptyMap]
    /\ instances = <<>>
    /\ vm_conservative = FALSE
    /\ calls = <<>>
    /\ querysets = <<>>
    /\ result = NoResult

\* The columns the subclasses add
PolyPalette == {DbField(Data, "x_db")}

\* Subclasses of the polymorphic base, and rows materialized through them
PolyNext ==
    \/ DefineClass(PolyPalette, {"x"}, {"None", "d1", "d2"}, {"absent", "True"},
                   MaxClasses + 1)
    \/ Construct_Instance
    \/ DiscoverSubmodels

SpecPoly == PolyInit /\ [][PolyNext]_vars

\* ------------------------------------- concurrent _construct_instance calls

\* The threads that call Base._construct_instance
MaxThreads == 2

Threads == 1..MaxThreads

\* class Base(Model): k = Key; t = Disc(db_field='t_db')
\* class A(Base): __discriminator_value__ = 'd1'
\* class B(Base): __discriminator_value__ = 'd2'
\* class C(A): __discriminator_value__ = 'd1'
ThreadModels ==
    DefineAll(<<ClassStmt(<<>>, <<<<"k", Key>>, <<"t", DbField(Disc, "t_db")>>>>,
                          "absent", "None"),
                ClassStmt(<<1>>, <<>>, "absent", "d1"),
                ClassStmt(<<1>>, <<>>, "absent", "d2"),
                ClassStmt(<<2>>, <<>>, "absent", "d1")>>,
              [heap |-> <<>>, classes |-> <<>>])

\* The class the calls are made on
ThreadBase == 1

\* The discriminator values of the rows: two that subclasses declare, one
\* that none declares
ThreadValues == {"d1", "d2", "d3"}

\* The maps earlier walks and later class definitions can have left: some of
\* the declared values, each under a class that declares it
StartMaps ==
    UNION {{f \in [S -> 2..Len(ThreadModels.classes)] :
               \A v \in S : ThreadModels.classes[f[v]].discriminator_value = v} :
           S \in SUBSET {"d1", "d2"}}

\* A thread outside _construct_instance
Idle == [pc |-> "idle", key |-> "None", todo |-> <<>>, klass |-> NoClass, walked |-> FALSE]

\* The thread t enters _construct_instance with a row whose discriminator
\* value is key
Call(t) ==
    /\ calls[t].pc = "idle"
    /\ \E key \in ThreadValues :
          calls' = [calls EXCEPT ![t] = [Idle EXCEPT !.pc = "lookup", !.key = key]]
    /\ UNCHANGED <<heap, classes, discriminator_map, instances, vm_conservative, querysets, result>>

\* klass = poly_base._get_model_by_discriminator_value(disc_key); on a miss
\* the thread enters _discover_polymorphic_submodels
Lookup(t) ==
    /\ calls[t].pc = "lookup"
    /\ LET klass == GetModelByDiscriminatorValue(discriminator_map, ThreadBase, calls[t].key)
       IN calls' = [calls EXCEPT ![t] =
                       IF MissedLookup(klass)
                       THEN [@ EXCEPT !.pc = "walk", !.todo = <<ThreadBase>>, !.walked = TRUE]
                       ELSE [@ EXCEPT !.pc = "done", !.klass = klass]]
    /\ UNCHANGED <<heap, classes, discriminator_map, instances, vm_conservative, querysets, result>>

\* One call of _discover(klass): the class is registered in the shared map,
\* and its subclasses are next
WalkStep(t) ==
    /\ calls[t].pc = "walk"
    /\ calls[t].todo # <<>>
    /\ LET klass == Head(calls[t].todo)
       IN /\ discriminator_map' =
                [discriminator_map EXCEPT ![ThreadBase] = Register(classes, klass, @)]
          /\ calls' = [calls EXCEPT ![t].todo =
                          OD_Values(Subclasses(classes, klass)) \o Tail(calls[t].todo)]
    /\ UNCHANGED <<heap, classes, instances, vm_conservative, querysets, result>>

\* The second lookup, after the walk: a miss raises
Retry(t) ==
    /\ calls[t].pc = "walk"
    /\ calls[t].todo = <<>>
    /\ LET klass == GetModelByDiscriminatorValue(discriminator_map, ThreadBase, calls[t].key)
       IN calls' = [calls EXCEPT ![t] =
                       IF klass = NoClass
                       THEN [@ EXCEPT !.pc = "failed"]
                       ELSE [@ EXCEPT !.pc = "done", !.klass = klass]]
    /\ UNCHANGED <<heap, classes, discriminator_map, instances, vm_conservative, querysets, result>>

\* The call returns its instance or raises, and the thread is free again
Return(t) ==
    /\ calls[t].pc \in {"done", "failed"}
    /\ calls' = [calls EXCEPT ![t] = Idle]
    /\ UNCHANGED <<heap, classes, discriminator_map, instances, vm_conservative, querysets, result>>

ThreadsInit ==
    /\ heap = ThreadModels.heap
    /\ classes = ThreadModels.classes
    /\ \E start \in StartMaps :
          discriminator_map = [i \in 1..Len(ThreadModels.classes) |->
                                  IF i = ThreadBase THEN start ELSE EmptyMap]
    /\ instances = <<>>
    /\ vm_conservative = FALSE
    /\ calls = [t \in Threads |-> Idle]
    /\ querysets = <<>>
    /\ result = NoResult

ThreadsNext ==
    \E t \in Threads : Call(t) \/ Lookup(t) \/ WalkStep(t) \/ Retry(t) \/ Return(t)

SpecThreads == ThreadsInit /\ [][ThreadsNext]_vars

\* ------------------------------------------- loaded and constructed instances

\* values.items() of a row or of keyword arguments, in one of its orders
ItemsOf(kw) == CHOOSE s \in ItemOrders(kw) : TRUE

\* Cls._construct_instance(values), the instance kept by the caller
Load ==
    /\ Len(instances) < MaxInstances
    /\ \E c \in 1..Len(classes) :
          \E row \in Kwargs(ColumnNames(classes[c]), {"None", "v1"}) :
             LET r == ConstructInstance(heap, classes, discriminator_map, c, ItemsOf(row))
             IN /\ discriminator_map' = r.maps
                /\ instances' = IF r.err = "" THEN Append(instances, r.instance)
                                ELSE instances
                /\ result' = [op |-> "load", err |-> r.err,
                              inst |-> IF r.err = "" THEN Len(instances) + 1 ELSE 0,
                              dml |-> NoCall, given |-> DOMAIN row]
    /\ UNCHANGED <<heap, classes, vm_conservative, calls, querysets>>

\* Cls(**values), None among the values
ConstructWithNone ==
    /\ Len(instances) < MaxInstances
    /\ \E c \in 1..Len(classes) :
          \E kw \in Kwargs(ColumnNames(classes[c]), {"None", "v1"}) :
             /\ instances' = Append(instances, NewInstance(heap, classes, c, kw))
             /\ result' = [op |-> "init", err |-> "", inst |-> Len(instances) + 1,
                           dml |-> NoCall, given |-> DOMAIN kw]
    /\ UNCHANGED <<heap, classes, discriminator_map, vm_conservative, calls, querysets>>

\* class Doc(Model): k = Key(required); x = Data(default='v1'), of a type
\* whose validate() converts
LoadModels ==
    DefineAll(<<ClassStmt(<<>>, <<<<"k", Required(Key)>>,
                                  <<"x", WithDefault(Coercing(Data), "v1")>>>>,
                          "absent", "None")>>,
              [heap |-> <<>>, classes |-> <<>>])

LoadInit ==
    /\ heap = LoadModels.heap
    /\ classes = LoadModels.classes
    /\ discriminator_map = [i \in 1..Len(LoadModels.classes) |-> EmptyMap]
    /\ instances = <<>>
    /\ vm_conservative \in BOOLEAN
    /\ calls = <<>>
    /\ querysets = <<>>
    /\ result = NoResult

\* Instances constructed and loaded, assigned and written
LoadNext ==
    \/ ConstructWithNone
    \/ Load
    \/ Assign
    \/ Save
    \/ Update

SpecLoad == LoadInit /\ [][LoadNext]_vars

\* ------------------------------------------ the options across a save

\* One instance of Plain with every pending option, saved and updated
PendingNext ==
    \/ Construct({1}, {"v1"})
    \/ InstanceOption("ttl", {"90"}, {FALSE})
    \/ Timestamp
    \/ Consistency
    \/ Iff
    \/ IfNotExists
    \/ Batch
    \/ Timeout
    \/ Save
    \/ Update

SpecPending == TtlInit /\ [][PendingNext]_vars

\* ------------------------------------------------- the option accessors

\* class Mixin(Model): __abstract__ = True
\* class Shared(Model): __abstract__ = True; k = Key(required)
\* class Plain(Model): k = Key(required); x = Data
AccessorModels ==
    DefineAll(<<ClassStmt(<<>>, <<>>, "True", "None"),
                ClassStmt(<<>>, <<<<"k", Required(Key)>>>>, "True", "None"),
                ClassStmt(<<>>, <<<<"k", Required(Key)>>, <<"x", Data>>>>, "absent", "None")>>,
              [heap |-> <<>>, classes |-> <<>>])

AccessorsInit ==
    /\ heap = AccessorModels.heap
    /\ classes = AccessorModels.classes
    /\ discriminator_map = [c \in 1..Len(AccessorModels.classes) |-> EmptyMap]
    /\ instances = <<>>
    /\ vm_conservative = FALSE
    /\ calls = <<>>
    /\ querysets = <<>>
    /\ result = NoResult

\* Two instances, the five accessors through an instance and through the
\* class, and a setter called again
AccessorsNext ==
    \/ ConstructUpTo(MaxObjects - Len(querysets), 1..Len(classes), {})
    \/ InstanceOption("ttl", {"60"}, {FALSE})
    \/ InstanceOption("timestamp", {"ts1"}, {FALSE})
    \/ Consistency
    \/ Iff
    \/ IfNotExists
    \/ ClassTtl
    \/ ClassTimestamp
    \/ ClassConsistency
    \/ ClassIff
    \/ ClassIfNotExists
    \/ SetterAgain

SpecAccessors == AccessorsInit /\ [][AccessorsNext]_vars

\* ------------------------------------------------------ query entry point

\* cls.objects.<method>(...): the queryset's method is reached only when the
\* descriptor returned a queryset
ThroughObjects(h, cs, model, method) ==
    LET o == Objects(h, cs, model)
    IN [err |-> o.err, queryset |-> o.queryset,
        call |-> IF o.err = "" THEN method ELSE "none"]

\* create(**kwargs): the names of kwargs are checked before objects is read
CreateOn(h, cs, model, names) ==
    IF names \ ColumnNames(cs[model]) # {}
    THEN [err |-> "Incorrect columns passed", queryset |-> NoQuerySet, call |-> "none"]
    ELSE ThroughObjects(h, cs, model, "create")

\* Cls.objects, or instance.objects on an instance of Cls
GetObjects ==
    /\ ~DefinitionFailed
    /\ \E c \in 1..Len(classes), via \in {"class", "instance"} :
          /\ via = "instance" => \E i \in 1..Len(instances) : instances[i].cls = c
          /\ result' = [op |-> "objects", err |-> Objects(heap, classes, c).err, cls |-> c,
                        via |-> via, queryset |-> Objects(heap, classes, c).queryset,
                        call |-> "none"]
    /\ UNCHANGED <<heap, classes, discriminator_map, instances, vm_conservative, calls, querysets>>

\* Cls.create(**kwargs)
Create ==
    /\ ~DefinitionFailed
    /\ \E c \in 1..Len(classes), names \in SUBSET {"k", "zz"} :
          LET r == CreateOn(heap, classes, c, names)
          IN result' = [op |-> "create", err |-> r.err, cls |-> c, via |-> "class",
                        queryset |-> r.queryset, call |-> r.call]
    /\ UNCHANGED <<heap, classes, discriminator_map, instances, vm_conservative, calls, querysets>>

\* Cls.all(), Cls.filter(...), Cls.get(...)
PassThrough(method) ==
    /\ ~DefinitionFailed
    /\ \E c \in 1..Len(classes) :
          LET r == ThroughObjects(heap, classes, c, method)
          IN result' = [op |-> method, err |-> r.err, cls |-> c, via |-> "class",
                        queryset |-> r.queryset, call |-> r.call]
    /\ UNCHANGED <<heap, classes, discriminator_map, instances, vm_conservative, calls, querysets>>

All == PassThrough("all")

Filter == PassThrough("filter")

Get == PassThrough("get")

QueryPalette == {Key}

\* Abstract and concrete models, their instances and their query entry points
QueryNext ==
    \/ DefineClass(QueryPalette, {"k"}, {"None"}, {"absent", "True", "False"}, MaxClasses)
    \/ (~DefinitionFailed /\ Construct(1..Len(classes), {"v1"}))
    \/ GetObjects
    \/ Create
    \/ All
    \/ Filter
    \/ Get

SpecQuery == SchemaInit /\ [][QueryNext]_vars

\* ----------------------------------------------------------- table names

\* Names are sequences of characters.
LowerChars == {"a", "b", "c", "h", "m", "n", "p", "x"}

UpperChars == {"A", "B", "C", "H", "M", "N", "P", "X"}

\* str.lower on one character
LowerChar(ch) ==
    CASE ch = "A" -> "a" [] ch = "B" -> "b" [] ch = "C" -> "c" [] ch = "H" -> "h"
      [] ch = "M" -> "m" [] ch = "N" -> "n" [] ch = "P" -> "p" [] ch = "X" -> "x"
      [] OTHER -> ch

\* str.lower
LowerStr(str) == [i \in 1..Len(str) |-> LowerChar(str[i])]

\* ccase: camelcase.sub over ([a-z])([A-Z]), the matches taken left to right
\* without overlap
RECURSIVE CCase(_)
CCase(str) ==
    IF Len(str) < 2 THEN str
    ELSE IF str[1] \in LowerChars /\ str[2] \in UpperChars
    THEN <<str[1], "_", LowerChar(str[2])>> \o CCase(SubSeq(str, 3, Len(str)))
    ELSE <<str[1]>> \o CCase(Tail(str))

TableNameLength == 48

\* cf_name[-48:]
LastChars(str) ==
    IF Len(str) > TableNameLength
    THEN SubSeq(str, Len(str) - TableNameLength + 1, Len(str))
    ELSE str

\* re.sub(r'^_+', '', cf_name)
RECURSIVE StripUnderscores(_)
StripUnderscores(str) ==
    IF str # <<>> /\ Head(str) = "_" THEN StripUnderscores(Tail(str)) ELSE str

\* The name made of the class name
CfName(name) == StripUnderscores(LowerStr(LastChars(CCase(name))))

\* A class attribute: in the class's own __dict__ or not
Unset == [set |-> FALSE, value |-> <<>>]

Own(value) == [set |-> TRUE, value |-> value]

\* type.__new__(cls, name, bases, attrs): the class keeps its name and the
\* __table_name__ of its body; it has no _table_name of its own
NamedClass(klass, name, table_name_attr) ==
    klass @@ [name |-> name, table_name_attr |-> table_name_attr, _table_name |-> Unset]

\* cls._table_name: the first class of the resolution order that has one of
\* its own, else BaseModel._table_name = None; <<>> is None
RECURSIVE FirstSet(_, _, _)
FirstSet(cs, order, field) ==
    IF order = <<>> THEN <<>>
    ELSE IF field = "_table_name" /\ cs[Head(order)[1]]._table_name.set
    THEN cs[Head(order)[1]]._table_name.value
    ELSE IF field = "__table_name__" /\ cs[Head(order)[1]].table_name_attr.set
    THEN cs[Head(order)[1]].table_name_attr.value
    ELSE FirstSet(cs, Tail(order), field)

GetAttr(cs, c, field) == FirstSet(cs, Mro(cs, c), field)

\* _raw_column_family_name: the classes with the names cached, and the name
RECURSIVE RawColumnFamilyName(_, _)
RawColumnFamilyName(cs, c) ==
    LET base == RawColumnFamilyName(cs, cs[c]._polymorphic_base)
        cached ==
           IF GetAttr(cs, c, "_table_name") # <<>> THEN cs
           ELSE IF GetAttr(cs, c, "__table_name__") # <<>>
           THEN [cs EXCEPT ![c]._table_name = Own(LowerStr(GetAttr(cs, c, "__table_name__")))]
           ELSE IF cs[c]._is_polymorphic /\ ~cs[c]._is_polymorphic_base
           THEN [base.classes EXCEPT ![c]._table_name = Own(base.name)]
           ELSE [cs EXCEPT ![c]._table_name = Own(CfName(cs[c].name))]
    IN [classes |-> cached, name |-> GetAttr(cached, c, "_table_name")]

\* The class names, Pa, aB, _A and x_bb...b of 49 characters
LongName == <<"x", "_">> \o [i \in 1..(TableNameLength - 1) |-> "b"]

ClassNames == {<<"P", "a">>, <<"a", "B">>, <<"_", "A">>, LongName}

\* __table_name__ of a class body: absent, None, or 'Mn'
TableNameAttrs == {Unset, Own(<<>>), Own(<<"M", "n">>)}

\* The class bodies of the table-name specification
TableBodies == {<<>>, <<<<"k", Key>>>>, <<<<"k", Key>>, <<"t", Disc>>>>}

\* A class statement, with the name of the class and its __table_name__
DefineNamedClass ==
    /\ ~DefinitionFailed
    /\ Len(classes) < MaxClasses
    /\ \E bases \in BaseChoices(classes), decls \in TableBodies, dv \in {"None", "d1"},
          name \in ClassNames, attr \in TableNameAttrs :
          LET r == MetaNew(heap, classes, bases, decls, "absent", dv)
          IN /\ heap' = IF r.err = "" THEN r.heap ELSE SubSeq(r.heap, 1, Len(heap))
             /\ classes' = IF r.err = ""
                           THEN Append(classes, NamedClass(r.klass, name, attr))
                           ELSE classes
             /\ discriminator_map' = IF r.err = "" THEN Append(discriminator_map, EmptyMap)
                                     ELSE discriminator_map
             /\ result' = [op |-> "define", err |-> r.err, bases |-> bases,
                           decls |-> decls, abstract |-> "absent",
                           discriminator_value |-> dv]
    /\ UNCHANGED <<instances, vm_conservative, calls, querysets>>

\* Cls._raw_column_family_name()
TableName ==
    /\ ~DefinitionFailed
    /\ \E c \in 1..Len(classes) :
          LET r == RawColumnFamilyName(classes, c)
          IN /\ classes' = r.classes
             /\ result' = [op |-> "table_name", err |-> "", cls |-> c, name |-> r.name]
    /\ UNCHANGED <<heap, discriminator_map, instances, vm_conservative, calls, querysets>>

\* Named classes and the requests for their table names
TablesNext ==
    \/ DefineNamedClass
    \/ TableName

SpecTables == SchemaInit /\ [][TablesNext]_vars

\* ------------------------------------------------ per-class error types

\* The owners of error types that are no class of the model: class Model,
\* class BaseModel and the query module
ModelClass == 0
BaseModelClass == 0 - 1
QueryModule == 0 - 2

ErrorKinds == {"DoesNotExist", "MultipleObjectsReturned"}

\* The type <owner>.<kind>
ErrorType(kind, owner) == [kind |-> kind, owner |-> owner]

\* The bases a class statement hands to the metaclass: a statement without
\* model bases derives Model, and Model derives BaseModel
MetaBases(cs, owner) ==
    IF owner = ModelClass THEN <<BaseModelClass>>
    ELSE IF cs[owner].bases = <<>> THEN <<ModelClass>>
    ELSE cs[owner].bases

\* None, where an error type is looked for
NoType == [kind |-> "None", owner |-> QueryModule]

\* for base in bases: getattr(base, kind, None), until one is found; every
\* base is a model class or BaseModel and has the attribute
FoundInBases(kind, bases) == IF bases = <<>> THEN NoType ELSE ErrorType(kind, bases[1])

\* a or b, for a that is None or a class: a class is true
PyOr(a, b) == IF a = NoType THEN b ELSE a

\* DoesNotExistBase = DoesNotExistBase or attrs.pop('DoesNotExist', ...)
DoesNotExistBase(bases) ==
    PyOr(FoundInBases("DoesNotExist", bases), ErrorType("DoesNotExist", BaseModelClass))

\* MultipleObjectsReturnedBase = DoesNotExistBase or attrs.pop(...): what
\* the loop over the bases found is dropped
MultipleObjectsReturnedBase(bases) ==
    PyOr(DoesNotExistBase(bases), ErrorType("MultipleObjectsReturned", BaseModelClass))

\* The base of an error type: type(kind, (base,), {}) in the metaclass, and
\* the two class statements in the body of BaseModel
BaseOf(cs, t) ==
    IF t.owner = BaseModelClass THEN ErrorType(t.kind, QueryModule)
    ELSE IF t.kind = "DoesNotExist" THEN DoesNotExistBase(MetaBases(cs, t.owner))
    ELSE MultipleObjectsReturnedBase(MetaBases(cs, t.owner))

\* issubclass(t, u) for error types
RECURSIVE Descends(_, _, _)
Descends(cs, t, u) ==
    \/ t = u
    \/ /\ t.owner # QueryModule
       /\ Descends(cs, BaseOf(cs, t), u)

\* ------------------------------------------------- claims on the resolver

\* The class the last class statement created
LastClass == classes[Len(classes)]

Defined == result.op = "define" /\ result.err = ""

\* The merged column definitions of a class statement, inherited ones first,
\* as <<name, column object>>
MergedOf(h, cs, bases, decls) ==
    LET inh == InheritedColumns(cs, bases, <<>>)
    IN [i \in 1..Len(inh) |-> <<inh[i][1], h[inh[i][2]]>>] \o decls

\* The names of a sequence of definitions, each once, in the order they
\* first appear
RECURSIVE FirstNames(_)
FirstNames(m) ==
    IF m = <<>> THEN <<>>
    ELSE LET r == FirstNames(SubSeq(m, 1, Len(m) - 1))
             n == m[Len(m)][1]
         IN IF \E i \in 1..Len(r) : r[i] = n THEN r ELSE Append(r, n)

PrimaryKeyDefs(m) == SelectSeq(m, LAMBDA c : c[2].primary_key)

\* C1 as stated: with no column of the merged set declared partition key,
\* the first primary key in merged order is the partition key and the other
\* primary keys are the clustering keys, in order; with one declared, the
\* partition keys are exactly the declared ones, in order.
C1_AsStated ==
    [][(result'.op = "define" /\ result'.err = "") =>
        LET m == MergedOf(heap, classes, result'.bases, result'.decls)
            pks == FirstNames(PrimaryKeyDefs(m))
            c == classes'[Len(classes')]
        IN IF \A i \in 1..Len(m) : ~m[i][2].declared_partition_key
           THEN pks # <<>> =>
                    /\ OD_Keys(c._partition_keys) = <<pks[1]>>
                    /\ OD_Keys(c._clustering_keys) = Tail(pks)
           ELSE OD_Keys(c._partition_keys) =
                    FirstNames(SelectSeq(m, LAMBDA d : d[2].declared_partition_key))
      ]_vars

\* C1 (amended): a column counts as flagged when its partition_key attribute
\* is set as resolution starts, by its declaration or by the auto-promotion
\* of an earlier resolution.  With no flagged column in the merged list the
\* first primary-key definition is promoted, otherwise none is; the
\* partition keys are the primary-key names whose last primary-key
\* definition in the merged list is flagged or promoted, the clustering keys
\* are the other primary-key names, both in merged declaration order.
C1_Keys ==
    [][(result'.op = "define" /\ result'.err = "") =>
        LET m == MergedOf(heap, classes, result'.bases, result'.decls)
            pks == FirstNames(PrimaryKeyDefs(m))
            c == classes'[Len(classes')]
            flagged == \E i \in 1..Len(m) : m[i][2].partition_key
            IsFirstPk(i) == m[i][2].primary_key
                            /\ \A j \in 1..(i - 1) : ~m[j][2].primary_key
            Last(n) == CHOOSE i \in 1..Len(m) :
                          /\ m[i][1] = n /\ m[i][2].primary_key
                          /\ \A j \in (i + 1)..Len(m) :
                                ~(m[j][1] = n /\ m[j][2].primary_key)
            IsPartition(n) == m[Last(n)][2].partition_key
                              \/ (~flagged /\ IsFirstPk(Last(n)))
        IN /\ OD_Keys(c._partition_keys) = SelectSeq(pks, IsPartition)
           /\ OD_Keys(c._clustering_keys) = SelectSeq(pks, LAMBDA n : ~IsPartition(n))
           /\ (~flagged /\ Len(m) = Len(FirstNames(m)) /\ pks # <<>>) =>
                 /\ OD_Keys(c._partition_keys) = <<pks[1]>>
                 /\ OD_Keys(c._clustering_keys) = Tail(pks)
           /\ (flagged /\ Len(m) = Len(FirstNames(m))) =>
                 OD_Keys(c._partition_keys) =
                    FirstNames(SelectSeq(m, LAMBDA d : d[2].partition_key))
      ]_vars

\* An inherited key that an earlier resolution promoted stays a partition
\* key beside a declared one, and a clustering key follows.
C1_Witness ==
    /\ Defined
    /\ Len(LastClass._partition_keys) = 2
    /\ Len(LastClass._clustering_keys) = 1
    /\ \E i \in 1..2 : ~heap[LastClass._partition_keys[i][2]].declared_partition_key

DiscriminatorError == "only one discriminator_column can be defined in a model"

\* C3: a class statement fails for its discriminator columns exactly when
\* two or more of its merged column definitions, inherited and declared
\* ones counted together, are discriminator columns; then no class is made.
C3_Discriminators ==
    result.op = "define" =>
        LET m == MergedOf(heap, classes, result.bases, result.decls)
            n == Len(SelectSeq(m, LAMBDA d : d[2].discriminator_column))
        IN /\ n >= 2 => result.err # ""
           /\ result.err = DiscriminatorError <=> n >= 2

\* A class body adds a second discriminator column to an inherited one.
C3_Witness ==
    /\ result.op = "define"
    /\ result.err = DiscriminatorError
    /\ result.bases # <<>>
    /\ Len(result.decls) = 1

\* The columns a merged list resolves to: under each name the last definition
ResolvedColumns(m) ==
    {m[i][2] : i \in {j \in 1..Len(m) : \A k \in (j + 1)..Len(m) : m[k][1] # m[j][1]}}

CounterMix(cols) ==
    /\ \E v \in cols : v.kind = "counter"
    /\ \E v \in cols : ~v.primary_key /\ v.kind # "counter"

\* C4: a class statement whose resolved columns hold a counter column and a
\* column that is neither primary key nor counter fails, and the columns of
\* every class that was created hold no such pair.
C4_Counters ==
    result.op = "define" =>
        /\ CounterMix(ResolvedColumns(MergedOf(heap, classes, result.bases, result.decls)))
              => result.err # ""
        /\ result.err = "" =>
              ~CounterMix({heap[LastClass._columns[i][2]] :
                              i \in 1..Len(LastClass._columns)})

\* A counter column beside a discriminator column that is no key: refused.
C4_Witness ==
    /\ result.op = "define"
    /\ result.err = "counter models may not have data columns"
    /\ LET cols == ResolvedColumns(MergedOf(heap, classes, result.bases, result.decls))
       IN /\ \E v \in cols : v.kind = "counter"
          /\ \A v \in cols : v.kind # "counter" /\ ~v.primary_key => v.discriminator_column

\* ------------------------------------------------ claims on the instances

KlassOf(inst) == classes[inst.cls]

PartitionKeyNames(inst) == OD_Keys(KlassOf(inst)._partition_keys)

PrimaryKeyNames(inst) ==
    {KlassOf(inst)._primary_keys[i][1] : i \in 1..Len(KlassOf(inst)._primary_keys)}

\* C2: pk reads the one partition-key field as a scalar when the model has
\* exactly one partition key and the tuple of the partition-key fields, in
\* partition-key order, when it has several; right after pk is assigned t,
\* pk reads t and every partition-key field holds its element of t.
C2_Pk ==
    \A i \in 1..Len(instances) :
       LET inst == instances[i]
           names == PartitionKeyNames(inst)
           read == PkGet(heap, classes, inst)
           written == result.op = "setpk" /\ result.inst = i
       IN /\ Len(names) = 1 =>
                /\ read = inst._values[names[1]].value
                /\ written => read = result.val /\ inst._values[names[1]].value = result.val
          /\ Len(names) > 1 =>
                /\ read = [j \in 1..Len(names) |-> inst._values[names[j]].value]
                /\ written =>
                      /\ read = result.val
                      /\ \A j \in 1..Len(names) :
                            inst._values[names[j]].value = result.val[j]

C2_Witness ==
    /\ result.op = "setpk"
    /\ Len(PartitionKeyNames(instances[result.inst])) = 2
    /\ result.val = <<"v1", "v2">>
    /\ PkGet(heap, classes, instances[result.inst]) = <<"v1", "v2">>

UsageErrors == {"has no column named", "Cannot apply update to primary key"}

\* C5: an update() that names something that is no column of the model, or
\* a primary-key column, fails with a usage error, calls no executor and
\* leaves the instance exactly as it was, whatever else the call names.
C5_UpdateRejected ==
    [][(/\ result'.op = "update"
        /\ \E n \in result'.names :
              \/ n \notin ColumnNames(KlassOf(instances[result'.inst]))
              \/ n \in PrimaryKeyNames(instances[result'.inst]))
       => /\ result'.err \in UsageErrors
          /\ result'.dml = NoCall
          /\ instances' = instances]_vars

\* C7: save() on an instance of a polymorphic base fails with a usage error,
\* calls no executor and leaves the instance as it was; save() on an
\* instance of a concrete polymorphic class leaves the discriminator field
\* holding the class's discriminator value, and hands the executor that
\* value when it is called.
C7_Save ==
    [][result'.op = "save" =>
          LET i == result'.inst
              klass == KlassOf(instances[i])
              name == klass._discriminator_column_name
          IN /\ klass._is_polymorphic /\ klass._is_polymorphic_base =>
                   /\ result'.err = "cannot save polymorphic base model"
                   /\ result'.dml = NoCall
                   /\ instances'[i] = instances[i]
                   /\ ~instances'[i]._is_persisted
             /\ klass._is_polymorphic /\ ~klass._is_polymorphic_base =>
                   /\ instances'[i]._values[name].value = klass.discriminator_value
                   /\ result'.dml # NoCall =>
                         result'.dml.values[name] = klass.discriminator_value]_vars

C7_Witness ==
    /\ result.op = "save"
    /\ result.err = "cannot save polymorphic base model"
    /\ \E k \in DOMAIN instances[result.inst]._values :
          instances[result.inst]._values[k].changed

\* C8: right after a save() or update() that returned, no column is changed,
\* previous equals current for each, get_changed_columns() is empty and
\* _can_update() is true; and _can_update() stays true over every step that
\* assigns a field outside the primary key or leaves the primary-key
\* fields' value managers as they are (with exact tracking: leaves their
\* values as they are).
C8_Clean ==
    [][\A i \in 1..Len(instances) :
          LET before == instances[i]
              after == instances'[i]
              pks == PrimaryKeyNames(before)
          IN /\ (result'.op \in {"save", "update"} /\ result'.err = "" /\ result'.inst = i) =>
                   /\ \A k \in DOMAIN after._values :
                         /\ ~after._values[k].changed
                         /\ after._values[k].previous_value = after._values[k].value
                   /\ GetChangedColumns(after) = {}
                   /\ CanUpdate(classes, after)
             /\ (CanUpdate(classes, before) /\ result'.op = "setattr"
                   /\ result'.name \notin pks) => CanUpdate(classes, after)
             /\ (CanUpdate(classes, before)
                   /\ \A k \in pks : after._values[k] = before._values[k])
                => CanUpdate(classes, after)
             /\ (CanUpdate(classes, before) /\ ~vm_conservative
                   /\ \A k \in pks : after._values[k].value = before._values[k].value)
                => CanUpdate(classes, after)]_vars

C8_Witness ==
    /\ result.op = "setattr"
    /\ result.name \notin PrimaryKeyNames(instances[result.inst])
    /\ instances[result.inst]._values[result.name].changed
    /\ GetChangedColumns(instances[result.inst]) = {result.name}
    /\ CanUpdate(classes, instances[result.inst])

BatchSet(inst) == inst._batch # "None"

TimeoutSet(inst) == inst._timeout # NOT_SET

\* C9: no instance ever has a batch and a timeout at once; timeout() on an
\* instance with a batch fails and leaves the timeout as it was, and batch()
\* on an instance with a timeout fails and leaves the batch as it was.
C9_Exclusive ==
    [][\A i \in 1..Len(instances') :
          /\ ~(BatchSet(instances'[i]) /\ TimeoutSet(instances'[i]))
          /\ (i <= Len(instances) /\ result'.inst = i) =>
                /\ (result'.op = "timeout" /\ BatchSet(instances[i])) =>
                      /\ result'.err = "AssertionError"
                      /\ instances'[i]._timeout = instances[i]._timeout
                /\ (result'.op = "batch" /\ TimeoutSet(instances[i])) =>
                      /\ result'.err = "AssertionError"
                      /\ instances'[i]._batch = instances[i]._batch]_vars

C9_Witness ==
    /\ result.op = "timeout"
    /\ result.err = "AssertionError"
    /\ BatchSet(instances[result.inst])
    /\ instances[result.inst]._is_persisted

\* C19: after every save() and every update() that returned, the instance
\* is persisted, its pending ttl is the default ttl of its class and its
\* pending timestamp is None, whatever they were before the call; the
\* executor was handed the ttl and the timestamp pending before the call.
C19_Reset ==
    [][(result'.op \in {"save", "update"} /\ result'.err = "") =>
          LET before == instances[result'.inst]
              after == instances'[result'.inst]
          IN /\ after._is_persisted
             /\ after._ttl = DefaultTTL(classes, before.cls)
             /\ after._timestamp = "None"
             /\ result'.dml.op = result'.op
             /\ result'.dml.ttl = before._ttl
             /\ result'.dml.timestamp = before._timestamp]_vars

\* An update() with a ttl and a timestamp pending, on a class that inherits
\* its default ttl
C19_Witness ==
    /\ result.op = "update"
    /\ result.err = ""
    /\ result.dml.ttl = "90"
    /\ result.dml.timestamp = "ts1"
    /\ "default_ttl" \notin DOMAIN classes[instances[result.inst].cls]
    /\ instances[result.inst]._ttl = "60"
    /\ instances[result.inst]._timestamp = "None"
    /\ instances[result.inst]._is_persisted

\* C20: delete() leaves the instance as it was: the persisted flag, every
\* field's value manager, the pending ttl, timestamp, batch, timeout,
\* consistency and transaction; so an instance _can_update() accepted before
\* delete() is accepted after it.
C20_Unchanged ==
    [][result'.op = "delete" =>
          LET before == instances[result'.inst]
              after == instances'[result'.inst]
          IN /\ instances' = instances
             /\ after._is_persisted = before._is_persisted
             /\ after._values = before._values
             /\ after._ttl = before._ttl
             /\ after._timestamp = before._timestamp
             /\ after._batch = before._batch
             /\ after._timeout = before._timeout
             /\ after.consistency = before.consistency
             /\ after._transaction = before._transaction
             /\ CanUpdate(classes, before) => CanUpdate(classes', after)]_vars

\* A delete() that returned, on a persisted instance with a changed field
\* and pending options
C20_Witness ==
    /\ result.op = "delete"
    /\ result.err = ""
    /\ CanUpdate(classes, instances[result.inst])
    /\ GetChangedColumns(instances[result.inst]) # {}
    /\ instances[result.inst]._ttl = "90"
    /\ instances[result.inst]._timestamp = "ts1"
    /\ instances[result.inst]._batch = "b1"

\* The options of an instance that save() and update() hand to the executor
\* and do not reset
KeptOptions(inst) ==
    [batch |-> inst._batch, timeout |-> inst._timeout, consistency |-> inst.consistency,
     transaction |-> inst._transaction, if_not_exists |-> inst._if_not_exists]

\* C26: a successful save() or update() resets only the pending ttl and
\* timestamp: the batch, the timeout, the consistency level, the transaction
\* clause and the if-not-exists flag of the instance are as before the call,
\* and every save() that reaches the executor passes it the five as the
\* instance holds them.
C26_Kept ==
    [][result'.op \in {"save", "update"} =>
          /\ result'.err = "" =>
                KeptOptions(instances'[result'.inst]) = KeptOptions(instances[result'.inst])
          /\ (result'.op = "save" /\ result'.dml # NoCall) =>
                /\ result'.dml.batch = instances[result'.inst]._batch
                /\ result'.dml.timeout = instances[result'.inst]._timeout
                /\ result'.dml.consistency = instances[result'.inst].consistency
                /\ result'.dml.transaction = instances[result'.inst]._transaction
                /\ result'.dml.if_not_exists = instances[result'.inst]._if_not_exists]_vars

C26_Witness ==
    /\ result.op = "save"
    /\ result.err = ""
    /\ result.dml.ttl = "90"
    /\ result.dml.timestamp = "ts1"
    /\ instances[result.inst]._ttl = "None"
    /\ instances[result.inst]._timestamp = "None"
    /\ KeptOptions(instances[result.inst])
          = [batch |-> "b1", timeout |-> NOT_SET, consistency |-> "QUORUM",
             transaction |-> "c1", if_not_exists |-> TRUE]
    /\ result.dml.batch = "b1"
    /\ result.dml.consistency = "QUORUM"
    /\ result.dml.transaction = "c1"
    /\ result.dml.if_not_exists

\* C27: when validation or the executor fails during save() or update(),
\* the commit steps are not performed: the persisted flag is as before the
\* call, no value manager's previous value is synchronized, no changed flag
\* is cleared, the pending ttl and timestamp are retained, and an instance
\* that was not persisted is still reported as an insert by _can_update().
C27_NoCommit ==
    [][(result'.op \in {"save", "update"} /\ result'.err # "") =>
          LET before == instances[result'.inst]
              after == instances'[result'.inst]
          IN /\ after._is_persisted = before._is_persisted
             /\ \A k \in DOMAIN before._values :
                   /\ after._values[k].previous_value = before._values[k].previous_value
                   /\ before._values[k].changed => after._values[k].changed
             /\ after._ttl = before._ttl
             /\ after._timestamp = before._timestamp
             /\ ~before._is_persisted => ~CanUpdate(classes, after)]_vars

C27_Witness ==
    /\ result.op = "save"
    /\ result.err = "executor failed"
    /\ ~instances[result.inst]._is_persisted
    /\ ~CanUpdate(classes, instances[result.inst])
    /\ instances[result.inst]._ttl = "90"
    /\ instances[result.inst]._timestamp = "ts1"
    /\ instances[result.inst]._values["x"].changed
    /\ instances[result.inst]._values["x"].previous_value
          # instances[result.inst]._values["x"].value

\* C24: for the ttl, consistency, timestamp, transaction and if-not-exists
\* accessors, the setter obtained through an instance changes only that
\* instance's pending option and returns that same instance, every other
\* instance and the classes staying as they are; the setter obtained through
\* the class returns a query handle carrying the option and changes no
\* instance and no class, and the handle of each class-level access is a new
\* one, the handles handed out before staying as they are.
C24_Accessors ==
    [][result'.op \in Options =>
          LET option == result'.op
              ret == result'.returned
          IN /\ classes' = classes
             /\ result'.via = "instance" =>
                   /\ ret = [kind |-> "instance", id |-> result'.inst]
                   /\ instances' = [instances EXCEPT
                                      ![result'.inst][InstanceAttr[option]] = result'.value]
             /\ result'.via = "class" =>
                   /\ ret = [kind |-> "queryset", id |-> Len(querysets) + 1]
                   /\ Len(querysets') = Len(querysets) + 1
                   /\ querysets'[ret.id][QuerySetAttr[option]] = result'.value
                   /\ \A q \in 1..Len(querysets) : querysets'[q] = querysets[q]
                   /\ instances' = instances
             /\ result'.via = "setter" =>
                   /\ \A q \in 1..Len(querysets) : q # ret.id => querysets'[q] = querysets[q]
                   /\ instances' = instances]_vars

\* The same for the instances that have a column and the calls that do not
\* raise on model.objects of an abstract model
C24_Concrete ==
    [][(/\ result'.op \in Options
        /\ result'.err = ""
        /\ result'.via = "instance" => Truthy(classes, instances[result'.inst]))
       =>
          LET option == result'.op
              ret == result'.returned
          IN /\ classes' = classes
             /\ result'.via = "instance" =>
                   /\ ret = [kind |-> "instance", id |-> result'.inst]
                   /\ instances' = [instances EXCEPT
                                      ![result'.inst][InstanceAttr[option]] = result'.value]
             /\ result'.via = "class" =>
                   /\ ret = [kind |-> "queryset", id |-> Len(querysets) + 1]
                   /\ Len(querysets') = Len(querysets) + 1
                   /\ querysets'[ret.id][QuerySetAttr[option]] = result'.value
                   /\ \A q \in 1..Len(querysets) : querysets'[q] = querysets[q]
                   /\ instances' = instances
             /\ result'.via = "setter" =>
                   /\ \A q \in 1..Len(querysets) : q # ret.id => querysets'[q] = querysets[q]
                   /\ instances' = instances]_vars

\* What _can_update() is said to answer
PersistedWithKeysUnchanged(inst) ==
    /\ inst._is_persisted
    /\ \A k \in PrimaryKeyNames(inst) : ~inst._values[k].changed

\* C21: at every moment _can_update() is true exactly when the instance is
\* marked persisted and no primary-key value manager is marked changed. It
\* is false for an instance just constructed, true for one
\* _construct_instance returned, false after a primary-key field of a
\* persisted instance was assigned another value, and true after a save()
\* that returned.
C21_CanUpdate ==
    [][/\ \A i \in 1..Len(instances') :
             CanUpdate(classes', instances'[i]) = PersistedWithKeysUnchanged(instances'[i])
       /\ result'.op = "init" => ~CanUpdate(classes', instances'[result'.inst])
       /\ (result'.op = "load" /\ result'.err = "") =>
             CanUpdate(classes', instances'[result'.inst])
       /\ (/\ result'.op = "setattr"
           /\ instances[result'.inst]._is_persisted
           /\ result'.name \in PrimaryKeyNames(instances[result'.inst])
           /\ instances'[result'.inst]._values[result'.name].value
                 # instances[result'.inst]._values[result'.name].value) =>
             ~CanUpdate(classes', instances'[result'.inst])
       /\ (result'.op = "save" /\ result'.err = "") =>
             CanUpdate(classes', instances'[result'.inst])]_vars

\* A save() that returned, on a persisted instance whose key had been changed
C21_Witness ==
    /\ result.op = "save"
    /\ result.err = ""
    /\ result.dml.values["k"] = "v2"
    /\ instances[result.inst]._values["k"].explicit
    /\ CanUpdate(classes, instances[result.inst])

\* The column object a field of the instance belongs to
ColumnOf(inst, name) == heap[OD_Get(KlassOf(inst)._columns, name)]

\* The live value of a field when validate() runs in the step to result':
\* the one update() has just assigned, else the one the instance held
LiveValue(name) ==
    IF result'.op = "update" /\ name \in result'.names THEN "v1"
    ELSE instances[result'.inst]._values[name].value

\* C22: validate() substitutes a column's default exactly when the field's
\* live value is None, the field was not supplied at construction and the
\* column has a default; a field supplied as None at construction, loaded
\* ones included, stays None; and when save() or update() reaches the
\* executor, every field holds what its column's validate() returned for
\* that value, and the executor is handed it.
C22_Validate ==
    [][(result'.op \in {"save", "update"} /\ result'.dml # NoCall) =>
          \A name \in DOMAIN instances[result'.inst]._values :
             LET before == instances[result'.inst]._values[name]
                 col == ColumnOf(instances[result'.inst], name)
                 substituted == /\ LiveValue(name) = "None"
                                /\ ~before.explicit
                                /\ col.has_default
                 v == IF substituted THEN col.default ELSE LiveValue(name)
             IN /\ result'.dml.values[name] = ColumnValidate(col, v)
                /\ instances'[result'.inst]._values[name].value = ColumnValidate(col, v)
                /\ (before.explicit /\ LiveValue(name) = "None") =>
                      instances'[result'.inst]._values[name].value = "None"]_vars

\* A save() of an instance whose field with a default was supplied as None
C22_Witness ==
    /\ result.op = "save"
    /\ result.err = ""
    /\ result.dml.values["x"] = "None"
    /\ instances[result.inst]._values["x"].explicit
    /\ ColumnOf(instances[result.inst], "x").has_default
    /\ instances[result.inst]._values["x"].value = "None"

\* ------------------------------------------ claims on the polymorphic resolver

\* The value a raw map holds under a name, None when it holds none
RawGet(items, r) ==
    IF \E i \in 1..Len(items) : items[i][1] = r
    THEN items[CHOOSE i \in 1..Len(items) : items[i][1] = r][2]
    ELSE "None"

\* The database name the class c stores its field n under, n itself when c
\* has no such column
StoredAs(c, n) ==
    IF OD_Has(classes[c]._columns, n)
    THEN db_field_name(heap[OD_Get(classes[c]._columns, n)])
    ELSE n

\* The classes below b that declare the discriminator value d
Declaring(b, d) ==
    {c \in 1..Len(classes) :
        c # b /\ IsSubclass(classes, c, b) /\ classes[c].discriminator_value = d}

\* C6: _construct_instance on a polymorphic base, with a raw map whose
\* discriminator field is the value exactly one subclass declares, returns a
\* persisted instance of that subclass whose fields are the raw values, under
\* the names the base maps them to, of the subclass's columns; whether the
\* discriminator map knew the value before or the hierarchy had to be walked.
C6_Construct ==
    (result.op = "construct" /\ classes[result.cls]._is_polymorphic_base) =>
        LET b == result.cls
            d == RawGet(result.values, StoredAs(b, classes[b]._discriminator_column_name))
        IN \A c \in 1..Len(classes) :
              (d # "None" /\ Declaring(b, d) = {c}) =>
                  /\ result.err = ""
                  /\ result.instance.cls = c
                  /\ result.instance._is_persisted
                  /\ DOMAIN result.instance._values = ColumnNames(classes[c])
                  /\ \A n \in ColumnNames(classes[c]) :
                        result.instance._values[n].value
                            = RawGet(result.values, StoredAs(b, n))

C6_Witness ==
    /\ result.op = "construct"
    /\ classes[result.cls]._is_polymorphic_base
    /\ result.err = ""
    /\ ~result.walked
    /\ result.instance.cls = Len(classes)
    /\ Len(classes) = MaxClasses + 1
    /\ result.instance._is_persisted
    /\ "x" \in DOMAIN result.instance._values

\* c is b or one of its descendants
Below(c, b) == c = b \/ b \in Ancestors(classes, c)

\* The polymorphic base of the polymorphic class c
PolyBaseOf(c) ==
    IF classes[c]._is_polymorphic_base THEN c ELSE classes[c]._polymorphic_base

\* The discriminator value the raw map holds, as the class c reads it
RawDiscriminator(c, items) ==
    RawGet(items, StoredAs(c, classes[c]._discriminator_column_name))

\* C15: every instance _construct_instance returns on a class K is an
\* instance of K or of a descendant of K; when the discriminator value
\* resolves to a class that is neither, a sibling subclass for example, the
\* call fails and returns no instance.
C15_Descendant ==
    result.op = "construct" =>
        /\ result.instance # NoInstance => Below(result.instance.cls, result.cls)
        /\ classes[result.cls]._is_polymorphic =>
              LET b == PolyBaseOf(result.cls)
                  d == RawDiscriminator(result.cls, result.values)
              IN (/\ d # "None"
                  /\ d \in DOMAIN discriminator_map[b]
                  /\ ~Below(discriminator_map[b][d], result.cls)) =>
                     /\ result.err = "is not a subclass of"
                     /\ result.instance = NoInstance

C15_Witness ==
    /\ result.op = "construct"
    /\ result.err = "is not a subclass of"
    /\ result.instance = NoInstance
    /\ classes[result.cls]._is_polymorphic
    /\ LET b == PolyBaseOf(result.cls)
           k == discriminator_map[b][RawDiscriminator(result.cls, result.values)]
       IN /\ b # result.cls
          /\ Below(k, b) /\ k # b
          /\ ~Below(k, result.cls) /\ ~Below(result.cls, k)

\* The classes a walk from the base b registers: b's descendants that are no
\* polymorphic base themselves and declare a discriminator value
Registrable(b) ==
    {c \in 1..Len(classes) :
        /\ Below(c, b)
        /\ ~classes[c]._is_polymorphic_base
        /\ classes[c].discriminator_value # "None"}

RegistrableAs(b, d) == {c \in Registrable(b) : classes[c].discriminator_value = d}

\* C16: on a polymorphic schema _construct_instance fails and constructs no
\* instance when the raw data has no discriminator value or a null one, and
\* then the discriminator map is neither walked nor changed; it fails and
\* constructs no instance too when no concrete descendant of the base
\* declares the value, and then the map holds no entry for the value.
C16_Unresolved ==
    [][(result'.op = "construct" /\ classes[result'.cls]._is_polymorphic) =>
          LET b == PolyBaseOf(result'.cls)
              d == RawDiscriminator(result'.cls, result'.values)
          IN /\ d = "None" =>
                   /\ result'.err = "discriminator value was not found in values"
                   /\ result'.instance = NoInstance
                   /\ ~result'.walked
                   /\ discriminator_map' = discriminator_map
             /\ (d # "None" /\ RegistrableAs(b, d) = {}) =>
                   /\ result'.err = "unrecognized discriminator column"
                   /\ result'.instance = NoInstance
                   /\ result'.walked
                   /\ d \notin DOMAIN discriminator_map'[b]]_vars

C16_Witness ==
    /\ result.op = "construct"
    /\ result.err = "unrecognized discriminator column"
    /\ result.instance = NoInstance
    /\ classes[result.cls]._is_polymorphic
    /\ RawDiscriminator(result.cls, result.values) = "d2"
    /\ DOMAIN discriminator_map[PolyBaseOf(result.cls)] = {"d1"}

\* C17: the discriminator map is populated lazily. A lookup that hits walks
\* nothing and leaves every map as it was. A lookup that misses walks the
\* hierarchy below the base once: afterwards the base's map holds the values
\* it held and the value of every registrable descendant, each under a
\* descendant that declares it, and no other map has changed. So a lookup for
\* a value some registrable descendant declares at the time of the call finds
\* a class declaring it, and on the base itself the call returns an instance.
C17_Lazy ==
    [][(/\ result'.op = "construct"
        /\ classes[result'.cls]._is_polymorphic
        /\ RawDiscriminator(result'.cls, result'.values) # "None") =>
          LET b == PolyBaseOf(result'.cls)
              d == RawDiscriminator(result'.cls, result'.values)
              hit == d \in DOMAIN discriminator_map[b]
          IN /\ hit => (~result'.walked /\ discriminator_map' = discriminator_map)
             /\ ~hit =>
                   /\ result'.walked
                   /\ DOMAIN discriminator_map'[b] =
                         DOMAIN discriminator_map[b]
                            \cup {classes[c].discriminator_value : c \in Registrable(b)}
                   /\ \A v \in DOMAIN discriminator_map'[b] :
                         IF RegistrableAs(b, v) # {}
                         THEN discriminator_map'[b][v] \in RegistrableAs(b, v)
                         ELSE discriminator_map'[b][v] = discriminator_map[b][v]
                   /\ \A x \in DOMAIN discriminator_map :
                         x # b => discriminator_map'[x] = discriminator_map[x]
             /\ RegistrableAs(b, d) # {} =>
                   /\ result'.err # "unrecognized discriminator column"
                   /\ d \in DOMAIN discriminator_map'[b]
                   /\ classes[discriminator_map'[b][d]].discriminator_value = d
                   /\ result'.cls = b =>
                         /\ result'.err = ""
                         /\ result'.instance.cls = discriminator_map'[b][d]]_vars

\* A walk that follows an earlier one: the map knew a value, the lookup missed
\* and found the class defined last
C17_Witness ==
    /\ result.op = "construct"
    /\ result.err = ""
    /\ result.walked
    /\ result.known # {}
    /\ Len(classes) = MaxClasses + 1
    /\ result.instance.cls = Len(classes)

\* C18: under every interleaving of concurrent _construct_instance calls on
\* one polymorphic base, from an empty or a partly populated discriminator
\* map, a call whose discriminator value is declared below the base never
\* fails to resolve it, and the class it resolves declares the value.
C18_Resolves ==
    \A t \in DOMAIN calls :
        RegistrableAs(ThreadBase, calls[t].key) # {} =>
            /\ calls[t].pc # "failed"
            /\ calls[t].pc = "done" =>
                  calls[t].klass \in RegistrableAs(ThreadBase, calls[t].key)

\* A call that hit an entry another call had just written, that call being
\* in the middle of its walk
C18_Witness ==
    \E t, u \in DOMAIN calls :
        /\ t # u
        /\ calls[t].pc = "done"
        /\ ~calls[t].walked
        /\ calls[t].key = "d1"
        /\ calls[t].klass = 2
        /\ calls[u].pc = "walk"
        /\ calls[u].todo = <<4, 3>>
        /\ DOMAIN discriminator_map[ThreadBase] = {"d1"}

\* ------------------------------------------------ claims on the query entry

QueryOps == {"objects", "create", "all", "filter", "get"}

\* C10: objects on an abstract model fails, read on the class or on an
\* instance, and create, all, filter and get on it reach no queryset method;
\* a class is abstract only when its own body says so, whatever its bases
\* are, and objects on a class that is not abstract returns its queryset.
C10_Abstract ==
    /\ result.op \in QueryOps =>
          /\ classes[result.cls].abstract =>
                /\ result.err # ""
                /\ result.call = "none"
                /\ result.queryset = NoQuerySet
                /\ result.op = "objects" =>
                      result.err = "cannot execute queries against abstract models"
          /\ (~classes[result.cls].abstract /\ result.op # "create") =>
                /\ result.err = ""
                /\ result.queryset.model = result.cls
    /\ Defined => (LastClass.abstract <=> result.abstract = "True")

C10_Witness ==
    /\ result.op = "objects"
    /\ result.via = "instance"
    /\ result.err = ""
    /\ classes[result.cls].bases # <<>>
    /\ \A i \in 1..Len(classes[result.cls].bases) :
          classes[classes[result.cls].bases[i]].abstract

\* ---------------------------------------------------- claims on table names

\* __table_name__ of the body of class c is a name
SetsTableName(c) == classes[c].table_name_attr.set /\ classes[c].table_name_attr.value # <<>>

\* C11: the table name of a class that is not polymorphic and sets no
\* __table_name__, and has a base that sets one, is made of its own class
\* name and is not the name its base sets.
C11_NotInherited ==
    result.op = "table_name" =>
        \A p \in 1..Len(classes) :
           (/\ \E i \in 1..Len(classes[result.cls].bases) : classes[result.cls].bases[i] = p
            /\ SetsTableName(p)
            /\ ~classes[result.cls].table_name_attr.set
            /\ ~classes[result.cls]._is_polymorphic)
           => /\ result.name = CfName(classes[result.cls].name)
              /\ result.name # LowerStr(classes[p].table_name_attr.value)

\* The name the definitions give class c: the override, of the class's own
\* body when own is TRUE and as the attribute is looked up otherwise, else the
\* name of the polymorphic base, else the name made of the class name
RECURSIVE DerivedName(_, _)
DerivedName(c, own) ==
    LET override == IF own THEN classes[c].table_name_attr.value
                    ELSE GetAttr(classes, c, "__table_name__")
    IN IF override # <<>> THEN LowerStr(override)
       ELSE IF classes[c]._is_polymorphic /\ ~classes[c]._is_polymorphic_base
       THEN DerivedName(classes[c]._polymorphic_base, own)
       ELSE CfName(classes[c].name)

\* C12: the table name returned for a class is the one its definitions give
\* it, whichever names were requested before; the override is read either as
\* the one of the class body or as the attribute the class sees.
C12_Derived ==
    result.op = "table_name" =>
        \/ result.name = DerivedName(result.cls, TRUE)
        \/ result.name = DerivedName(result.cls, FALSE)

\* ------------------------------------------------ claims on merged columns

\* The column object the i-th declaration of the last class statement made
LocalId(i) == Len(heap) - Len(result.decls) + i

DeclaredLocally(n) == \E i \in 1..Len(result.decls) : result.decls[i][1] = n

LocalIdOf(n) == LocalId(CHOOSE i \in 1..Len(result.decls) : result.decls[i][1] = n)

\* The bases of the last class statement that define the name n
BasesDefining(n) ==
    {i \in 1..Len(result.bases) : OD_Has(classes[result.bases[i]]._defined_columns, n)}

FirstBaseDefining(n) == CHOOSE i \in BasesDefining(n) : \A j \in BasesDefining(n) : i <= j

InheritedIdOf(n) == OD_Get(classes[result.bases[FirstBaseDefining(n)]]._defined_columns, n)

\* Where an inherited name stands: its first base, and its place there
InheritedPlace(n) ==
    LET b == FirstBaseDefining(n)
        od == classes[result.bases[b]]._defined_columns
    IN <<b, CHOOSE i \in 1..Len(od) : od[i][1] = n>>

\* C13 as stated: a name the class declares and an ancestor defines is mapped
\* to the ancestor's column.
C13_AncestorWins ==
    Defined =>
        \A n \in {result.decls[i][1] : i \in 1..Len(result.decls)} :
            BasesDefining(n) # {} =>
                /\ OD_Get(LastClass._columns, n) = InheritedIdOf(n)
                /\ OD_Get(LastClass._defined_columns, n) = InheritedIdOf(n)

\* C13: a name the class declares is mapped to the class's own column, also
\* when an ancestor defines it, and then stands where the ancestor's column
\* stood; a name only ancestors define is mapped to the column of the first
\* base that defines it; each name appears once, the inherited names first in
\* ancestor order, the new names after them by declared position.
C13_Merged ==
    Defined =>
        LET od == LastClass._columns
        IN /\ LastClass._defined_columns = od
           /\ \A p, q \in 1..Len(od) : p # q => od[p][1] # od[q][1]
           /\ \A p \in 1..Len(od) :
                 /\ DeclaredLocally(od[p][1]) \/ BasesDefining(od[p][1]) # {}
                 /\ od[p][2] = IF DeclaredLocally(od[p][1]) THEN LocalIdOf(od[p][1])
                               ELSE InheritedIdOf(od[p][1])
           /\ \A i \in 1..Len(result.decls) : OD_Has(od, result.decls[i][1])
           /\ \A i \in 1..Len(result.bases) :
                 \A j \in 1..Len(classes[result.bases[i]]._defined_columns) :
                    OD_Has(od, classes[result.bases[i]]._defined_columns[j][1])
           /\ \A p, q \in 1..Len(od) : p < q =>
                 LET n == od[p][1]
                     o == od[q][1]
                 IN \/ BasesDefining(n) # {} /\ BasesDefining(o) = {}
                    \/ /\ BasesDefining(n) # {} /\ BasesDefining(o) # {}
                       /\ \/ InheritedPlace(n)[1] < InheritedPlace(o)[1]
                          \/ /\ InheritedPlace(n)[1] = InheritedPlace(o)[1]
                             /\ InheritedPlace(n)[2] < InheritedPlace(o)[2]
                    \/ /\ BasesDefining(n) = {} /\ BasesDefining(o) = {}
                       /\ LocalIdOf(n) < LocalIdOf(o)

C13_Witness ==
    /\ Defined
    /\ Len(LastClass._columns) = 3
    /\ \E n \in {result.decls[i][1] : i \in 1..Len(result.decls)} :
          /\ BasesDefining(n) # {}
          /\ LastClass._columns[2][1] = n
          /\ OD_Get(LastClass._columns, n) = LocalIdOf(n)
          /\ heap[LocalIdOf(n)] # heap[InheritedIdOf(n)]

\* ------------------------------------------------------- claims on the keys

\* C23: a class statement fails whenever a column of the schema carries a
\* clustering order and, with the promoted partition key marked, is no
\* primary key or is a partition key, or carries an order that is not asc
\* or desc whatever its case: a class that resolved has neither. And it
\* fails when no merged definition is declared a partition key and the first
\* primary key of the merged definitions carries a clustering order.
C23_Order ==
    result.op = "define" =>
        /\ result.err = "" =>
              \A i \in 1..Len(LastClass._columns) :
                 LET v == heap[LastClass._columns[i][2]]
                 IN v.clustering_order # "None" =>
                       /\ v.primary_key
                       /\ ~v.partition_key
                       /\ OD_Has(LastClass._clustering_keys, LastClass._columns[i][1])
                       /\ v.clustering_order \in {"asc", "desc", "ASC", "DESC", "Asc", "Desc"}
        /\ LET merged == MergedOf(heap, classes, result.bases, result.decls)
               keys == PrimaryKeyDefs(merged)
           IN (/\ \A i \in 1..Len(merged) : ~merged[i][2].partition_key
               /\ keys # <<>>
               /\ keys[1][2].clustering_order # "None") => result.err # ""

\* A class whose first primary key carries a valid clustering order and
\* which declares no partition key
C23_Witness ==
    /\ result.op = "define"
    /\ result.err = "clustering_order may be specified only for clustering primary keys"
    /\ result.bases = <<>>
    /\ Len(result.decls) = 2
    /\ result.decls[1][2] = Ordered(Key, "asc")
    /\ result.decls[2][2] = Key

\* The names of an OrderedDict, as a set
NameSet(od) == {od[i][1] : i \in 1..Len(od)}

\* The key sets of a class agree with its column map
KeysAgree(klass) ==
    /\ \A i \in 1..Len(klass._primary_keys) :
          /\ OD_Has(klass._columns, klass._primary_keys[i][1])
          /\ OD_Get(klass._columns, klass._primary_keys[i][1]) = klass._primary_keys[i][2]
          /\ heap[klass._primary_keys[i][2]].primary_key
    /\ NameSet(klass._partition_keys) \cap NameSet(klass._clustering_keys) = {}
    /\ NameSet(klass._partition_keys) \cup NameSet(klass._clustering_keys)
          = {name \in ColumnNames(klass) : heap[OD_Get(klass._columns, name)].primary_key}

\* A local declaration under the name of an inherited primary key that is
\* itself no primary key
RedeclaresKeyAsData(bases, decls) ==
    \E b \in 1..Len(bases), d \in 1..Len(decls) :
       /\ OD_Has(classes[bases[b]]._primary_keys, decls[d][1])
       /\ ~decls[d][2].primary_key

\* C25: in every resolved class the key sets agree with the column map:
\* each name of _primary_keys maps to the column that _columns maps it to,
\* that column is a primary key, and _partition_keys and _clustering_keys
\* are disjoint and together hold exactly the primary-key columns of
\* _columns, also when a subclass redeclares an inherited primary key as a
\* non-key column.
C25_KeysAgree == \A c \in 1..Len(classes) : KeysAgree(classes[c])

\* The same for the class statements that redeclare no inherited primary
\* key as a non-key column
C25_NoRedeclaration ==
    (/\ result.op = "define"
     /\ result.err = ""
     /\ ~RedeclaresKeyAsData(result.bases, result.decls)
     /\ \A c \in 1..(Len(classes) - 1) : KeysAgree(classes[c]))
    => KeysAgree(LastClass)

\* The merged definitions of the last class statement hold a primary key
MergedHasPrimaryKey ==
    LET merged == MergedOf(heap, classes, result.bases, result.decls)
    IN \E i \in 1..Len(merged) : merged[i][2].primary_key

KeyErrors == {"At least 1 primary key is required.",
              "at least one partition key must be defined"}

ErrorOwners == {QueryModule, BaseModelClass, ModelClass} \cup (1..Len(classes))

\* The parent model of a class: its first base
ParentOf(c) == MetaBases(classes, c)[1]

\* C28: for every model class M the error types are kept apart:
\* M.DoesNotExist descends from the DoesNotExist of M's parent model,
\* M.MultipleObjectsReturned descends from the MultipleObjectsReturned of
\* M's parent model, and M.MultipleObjectsReturned descends from no
\* DoesNotExist type.
C28_Apart ==
    \A c \in 1..Len(classes) :
       /\ Descends(classes, ErrorType("DoesNotExist", c),
                   ErrorType("DoesNotExist", ParentOf(c)))
       /\ Descends(classes, ErrorType("MultipleObjectsReturned", c),
                   ErrorType("MultipleObjectsReturned", ParentOf(c)))
       /\ \A o \in ErrorOwners :
             ~Descends(classes, ErrorType("MultipleObjectsReturned", c),
                       ErrorType("DoesNotExist", o))

\* What the metaclass builds: both error types of M descend from the
\* DoesNotExist of M's parent model, and M.MultipleObjectsReturned descends
\* from no MultipleObjectsReturned type but itself
C28_Built ==
    \A c \in 1..Len(classes) :
       /\ Descends(classes, ErrorType("DoesNotExist", c),
                   ErrorType("DoesNotExist", ParentOf(c)))
       /\ Descends(classes, ErrorType("MultipleObjectsReturned", c),
                   ErrorType("DoesNotExist", ParentOf(c)))
       /\ \A o \in ErrorOwners \ {c} :
             ~Descends(classes, ErrorType("MultipleObjectsReturned", c),
                       ErrorType("MultipleObjectsReturned", o))

====
